---- MODULE Spec2Model ----
(***************************************************************************)
(* Model of the mystock backend: the per-user aggregate (watchlist and     *)
(* portfolios with holdings) kept as one document per user, and the HTTP   *)
(* handlers of backend/src/api/watchlist.py and backend/src/api/           *)
(* portfolios.py that load the document, transform it and replace it.      *)
(*                                                                         *)
(* A handler is an operator from (container, request) to the container it  *)
(* leaves behind and the response its caller observes; an action applies   *)
(* one handler to the current container.  Handlers are "async def" with no *)
(* await between query_items and replace_item, so one handler is one step. *)
(*                                                                         *)
(* Abstractions: timestamps (added_at, purchase_date, created_at) are the  *)
(* constant 0; password hashes and e-mail addresses are left out; a quote  *)
(* lookup never raises (get_stock_info catches everything) and its values  *)
(* do not reach the stored document.  Symbols are sequences of one-letter  *)
(* strings so that upper(), strip() and isalnum() are computed.            *)
(***************************************************************************)
EXTENDS Integers, Sequences, FiniteSets, TLC

---------------------------------------------------------------------------
\* Bounds.  The two limits are settings.MAX_WATCHLIST_ITEMS (50) and
\* settings.MAX_HOLDINGS_PER_PORTFOLIO (100) of core/config.py:93-94, scaled
\* down so that "full" is reachable; the handlers only compare against them.
MAX_WATCHLIST_ITEMS == 2
MAX_HOLDINGS_PER_PORTFOLIO == 2
\* number of uuid4() values drawn for holdings in one behaviour
MaxHoldingIds == 4

\* Field(max_length=20) of WatchlistAddRequest.symbol and the length check
\* of AddHoldingRequest.validate_symbol
SYMBOL_MAX_LENGTH == 20

---------------------------------------------------------------------------
\* Optional values: None is the empty tuple, a present value a 1-tuple.
None == <<>>
Some(v) == <<v>>

\* Registered users (documents exist) and one token subject with no document.
Users == {"u1", "u2"}
UserIds == Users \cup {"u0"}

\* settings.PORTFOLIO_NAMES (transliterated)
PORTFOLIO_NAMES == <<"long-term", "short-term", "scout">>

\* PortfolioItem.id default_factory: one uuid per portfolio, distinct per user
PortfolioId(u, k) == <<u, k>>
GhostPortfolioId == <<"nobody", 1>>

---------------------------------------------------------------------------
\* A list given elementwise, as an explicit tuple
ListOf(f) == SubSeq(f, 1, Len(f))

\* str.upper() on the modelled alphabet
UpperChar(c) ==
    CASE c = "a" -> "A"
      [] c = "b" -> "B"
      [] c = "c" -> "C"
      [] OTHER -> c

upper(s) == ListOf([i \in 1..Len(s) |-> UpperChar(s[i])])

\* str.strip(): drop leading and trailing blanks
RECURSIVE lstrip(_)
lstrip(s) == IF s # <<>> /\ Head(s) = " " THEN lstrip(Tail(s)) ELSE s

RECURSIVE rstrip(_)
rstrip(s) ==
    IF s # <<>> /\ s[Len(s)] = " " THEN rstrip(SubSeq(s, 1, Len(s) - 1)) ELSE s

strip(s) == rstrip(lstrip(s))

\* str.isalnum() of one character, and of a string (False for "")
IsAlnumChar(c) == c \in {"A", "B", "C", "K", "Q", "S", "a", "b", "c", "1"}

isalnum(s) == s # <<>> /\ \A i \in 1..Len(s) : IsAlnumChar(s[i])

\* str.replace('.', '')
RemoveDots(s) == SelectSeq(s, LAMBDA c : c # ".")

\* max(list, default=d)
MaxOf(S, d) ==
    IF S = {} THEN d ELSE CHOOSE y \in S : \A z \in S : z <= y

\* sorted(items, key=display_order): a stable sort; the item at index i goes
\* to the position counting the items that sort before it
SortByDisplayOrder(items) ==
    LET before(i) ==
            {j \in 1..Len(items) :
                \/ items[j].display_order < items[i].display_order
                \/ /\ items[j].display_order = items[i].display_order
                   /\ j < i}
    IN ListOf([k \in 1..Len(items) |->
                  items[CHOOSE i \in 1..Len(items) :
                            Cardinality(before(i)) = k - 1]])

---------------------------------------------------------------------------
\* a query without the WHERE c.id = @user_id filter
query_items_unfiltered(container, user_id) ==
    IF DOMAIN container = {} THEN <<>>
    ELSE <<container[CHOOSE id \in DOMAIN container : TRUE]>>

\* The Cosmos container: one document per registered user id.
query_items(container, user_id) ==
    IF user_id \in DOMAIN container THEN <<container[user_id]>> ELSE <<>>

\* a write that lands in every document
replace_every_item(container, item, body) ==
    [id \in DOMAIN container |-> body]

replace_item(container, item, body) == [container EXCEPT ![item] = body]

\* What a handler leaves behind and answers.
Reply(container, status, detail, body) ==
    [container |-> container, status |-> status, detail |-> detail,
     body |-> body]

\* pydantic construction of WatchlistItemResponse(**kwargs): id, user_id,
\* symbol, display_order and created_at are required (Field(...)).
WatchlistItemResponseRequired ==
    {"id", "user_id", "symbol", "display_order", "created_at"}

WatchlistItemResponse(kwargs) == WatchlistItemResponseRequired \subseteq kwargs

\* the keyword names the watchlist handlers pass: symbol, display_order,
\* notes, added_at, then item_response.update(stock_info)
ItemResponseKeys ==
    {"symbol", "display_order", "notes", "added_at", "current_price",
     "price_change", "change_percent", "market_cap", "company_name"}

\* the request model without the upper-casing of validate_symbol_format
WatchlistAddRequestAsTyped(symbol) ==
    IF Len(symbol) < 1 \/ Len(symbol) > SYMBOL_MAX_LENGTH
    THEN [ok |-> FALSE, symbol |-> symbol]
    ELSE LET v == strip(symbol) IN
         IF ~isalnum(RemoveDots(v))
         THEN [ok |-> FALSE, symbol |-> v]
         ELSE [ok |-> TRUE, symbol |-> v]

\* WatchlistAddRequest: Field(min_length=1, max_length=20), then
\* validate_symbol_format
WatchlistAddRequest(symbol) ==
    IF Len(symbol) < 1 \/ Len(symbol) > SYMBOL_MAX_LENGTH
    THEN [ok |-> FALSE, symbol |-> symbol]
    ELSE LET v == strip(upper(symbol)) IN
         IF ~isalnum(RemoveDots(v))
         THEN [ok |-> FALSE, symbol |-> v]
         ELSE [ok |-> TRUE, symbol |-> v]

\* a request model that checks the length of the list only from above
WatchlistReorderRequestUnchecked(symbol_order) ==
    Len(symbol_order) <= MAX_WATCHLIST_ITEMS

\* WatchlistReorderRequest: Field(min_length=1, max_length=50), then
\* validate_unique_symbols
WatchlistReorderRequest(symbol_order) ==
    /\ Len(symbol_order) >= 1
    /\ Len(symbol_order) <= MAX_WATCHLIST_ITEMS
    /\ Cardinality({symbol_order[i] : i \in 1..Len(symbol_order)})
          = Len(symbol_order)

\* WatchlistItem(display_order=...): Field(ge=0, lt=50)
WatchlistItem(symbol, display_order, notes) ==
    [ok |-> display_order >= 0 /\ display_order < MAX_WATCHLIST_ITEMS,
     item |-> [symbol |-> symbol, display_order |-> display_order,
               notes |-> notes, added_at |-> 0]]

---------------------------------------------------------------------------
\* Watchlist handlers (api/watchlist.py)

\* the highest display_order in use, given again
next_order_in_use(watchlists) ==
    MaxOf({watchlists[i].display_order : i \in 1..Len(watchlists)}, 0)

\* next_order = max([item["display_order"] for item in watchlists],
\*                  default=-1) + 1
next_order(watchlists) ==
    MaxOf({watchlists[i].display_order : i \in 1..Len(watchlists)}, -1) + 1

\* the handler with the size limit examined after the write
add_to_watchlist_write_first(container, user_id, symbol, notes) ==
    LET users == query_items(container, user_id) IN
    IF users = <<>> THEN Reply(container, 404, "User not found", <<>>)
    ELSE
    LET user_data == users[1]
        watchlists == user_data.watchlists
        new_item == WatchlistItem(symbol, next_order(watchlists), notes)
        body == [user_data EXCEPT
                    !.watchlists = Append(watchlists, new_item.item)]
        updated == replace_item(container, user_data.id, body)
    IN
    IF \E i \in 1..Len(watchlists) : watchlists[i].symbol = symbol
    THEN Reply(container, 400, "already in watchlist", <<>>)
    ELSE IF Len(watchlists) >= MAX_WATCHLIST_ITEMS
    THEN Reply(updated, 400, "Watchlist limit reached", <<>>)
    ELSE IF WatchlistItemResponse(ItemResponseKeys)
    THEN Reply(updated, 201, "Created", <<new_item.item>>)
    ELSE Reply(updated, 500, "Internal Server Error", <<>>)

\* POST /watchlist; symbol is the validated request.symbol
add_to_watchlist(container, user_id, symbol, notes) ==
    LET users == query_items(container, user_id) IN
    IF users = <<>> THEN Reply(container, 404, "User not found", <<>>)
    ELSE
    LET user_data == users[1]
        watchlists == user_data.watchlists
    IN
    IF \E i \in 1..Len(watchlists) : watchlists[i].symbol = symbol
    THEN Reply(container, 400, "already in watchlist", <<>>)
    ELSE IF Len(watchlists) >= MAX_WATCHLIST_ITEMS
    THEN Reply(container, 400, "Watchlist limit reached", <<>>)
    ELSE
    LET new_item == WatchlistItem(symbol, next_order(watchlists), notes)
    IN
    IF ~new_item.ok
    THEN Reply(container, 500, "Internal Server Error", <<>>)
    ELSE
    LET body == [user_data EXCEPT
                    !.watchlists = Append(watchlists, new_item.item)]
        updated == replace_item(container, user_data.id, body)
    IN
    IF WatchlistItemResponse(ItemResponseKeys)
    THEN Reply(updated, 201, "Created", <<new_item.item>>)
    ELSE Reply(updated, 500, "Internal Server Error", <<>>)

\* item_map = {item["symbol"]: item for item in watchlists}: the value kept
\* for a symbol is its last item, at the position of its first occurrence
ItemMapValues(watchlists) ==
    LET firsts == SelectSeq(ListOf([i \in 1..Len(watchlists) |-> i]),
                     LAMBDA i : \A j \in 1..(i - 1) :
                         watchlists[j].symbol # watchlists[i].symbol)
        lastOf(i) == CHOOSE j \in 1..Len(watchlists) :
                        /\ watchlists[j].symbol = watchlists[i].symbol
                        /\ \A k \in (j + 1)..Len(watchlists) :
                              watchlists[k].symbol # watchlists[i].symbol
    IN ListOf([n \in 1..Len(firsts) |-> watchlists[lastOf(firsts[n])]])

\* for index, symbol in enumerate(symbol_order):
\*     item_map[symbol]["display_order"] = index
\* (the last index at which a symbol is listed is the one that stays)
AssignOrders(items, symbol_order) ==
    ListOf([n \in 1..Len(items) |->
        LET listed == {i \in 1..Len(symbol_order) :
                          symbol_order[i] = items[n].symbol}
        IN IF listed = {} THEN items[n]
           ELSE [items[n] EXCEPT !.display_order = MaxOf(listed, 0) - 1]])

\* the length of the list compared before its symbols are looked up
ReorderRejectionLengthFirst(watchlists, symbol_order) ==
    LET symbols == {watchlists[i].symbol : i \in 1..Len(watchlists)} IN
    IF Len(symbol_order) # Len(watchlists)
    THEN "Must include all symbols"
    ELSE IF \E i \in 1..Len(symbol_order) : symbol_order[i] \notin symbols
    THEN "Symbol not found in watchlist"
    ELSE ""

\* a list that leaves watchlist symbols out is taken: the listed entries are
\* renumbered, the others keep their display_order
ReorderRejectionMerging(watchlists, symbol_order) ==
    LET symbols == {watchlists[i].symbol : i \in 1..Len(watchlists)} IN
    IF \E i \in 1..Len(symbol_order) : symbol_order[i] \notin symbols
    THEN "Symbol not found in watchlist"
    ELSE ""

\* "Validate all symbols exist", then "Check if all existing symbols are
\* included": the detail of the HTTPException raised, "" when none is
ReorderRejection(watchlists, symbol_order) ==
    LET symbols == {watchlists[i].symbol : i \in 1..Len(watchlists)} IN
    IF \E i \in 1..Len(symbol_order) : symbol_order[i] \notin symbols
    THEN "Symbol not found in watchlist"
    ELSE IF Len(symbol_order) # Len(watchlists)
    THEN "Must include all symbols"
    ELSE ""

\* PUT /watchlist/reorder; symbol_order passed WatchlistReorderRequest
reorder_watchlist(container, user_id, symbol_order) ==
    LET users == query_items(container, user_id) IN
    IF users = <<>> THEN Reply(container, 404, "User not found", <<>>)
    ELSE
    LET user_data == users[1]
        watchlists == user_data.watchlists
        rejection == ReorderRejection(watchlists, symbol_order)
    IN
    IF rejection # ""
    THEN Reply(container, 400, rejection, <<>>)
    ELSE
    LET body == [user_data EXCEPT
                    !.watchlists = AssignOrders(ItemMapValues(watchlists),
                                                symbol_order)]
        updated == replace_item(container, user_data.id, body)
        updated_watchlists ==
            SortByDisplayOrder(updated[user_data.id].watchlists)
    IN
    IF updated_watchlists = <<>> \/ WatchlistItemResponse(ItemResponseKeys)
    THEN Reply(updated, 200, "OK", updated_watchlists)
    ELSE Reply(updated, 500, "Internal Server Error", <<>>)

\* PUT /watchlist/{symbol}; symbol is the raw path parameter
update_watchlist_item(container, user_id, path_symbol, notes) ==
    LET symbol == upper(path_symbol)
        users == query_items(container, user_id)
    IN
    IF users = <<>> THEN Reply(container, 404, "User not found", <<>>)
    ELSE
    LET user_data == users[1]
        watchlists == user_data.watchlists
        found == {i \in 1..Len(watchlists) : watchlists[i].symbol = symbol}
    IN
    IF found = {}
    THEN Reply(container, 404, "Symbol not found in watchlist", <<>>)
    ELSE
    LET first == CHOOSE i \in found : \A j \in found : i <= j
        body == [user_data EXCEPT !.watchlists[first].notes = notes]
        updated == replace_item(container, user_data.id, body)
    IN
    IF WatchlistItemResponse({"symbol", "display_order", "notes", "added_at",
                              "current_price", "price_change",
                              "change_percent", "market_cap", "company_name"})
    THEN Reply(updated, 200, "OK", <<body.watchlists[first]>>)
    ELSE Reply(updated, 500, "Internal Server Error", <<>>)

\* every remaining item moved up, whatever its order was
CompactEvery(kept, deleted_order) ==
    ListOf([n \in 1..Len(kept) |->
               [kept[n] EXCEPT !.display_order = @ - 1]])

\* no remaining item moved
CompactNone(kept, deleted_order) == kept

\* for item in updated_watchlists:
\*     if item["display_order"] > deleted_order: item["display_order"] -= 1

Compact(kept, deleted_order) ==
    ListOf([n \in 1..Len(kept) |->
               IF kept[n].display_order > deleted_order
               THEN [kept[n] EXCEPT !.display_order = @ - 1]
               ELSE kept[n]])

\* DELETE /watchlist/{symbol}
remove_from_watchlist(container, user_id, path_symbol) ==
    LET symbol == upper(path_symbol)
        users == query_items(container, user_id)
    IN
    IF users = <<>> THEN Reply(container, 404, "User not found", <<>>)
    ELSE
    LET user_data == users[1]
        watchlists == user_data.watchlists
        found == {i \in 1..Len(watchlists) : watchlists[i].symbol = symbol}
    IN
    IF found = {}
    THEN Reply(container, 404, "Symbol not found in watchlist", <<>>)
    ELSE
    LET deleted_order ==
            watchlists[CHOOSE i \in found : \A j \in found : j <= i]
                .display_order
        kept == SelectSeq(watchlists, LAMBDA item : item.symbol # symbol)
        updated_watchlists == Compact(kept, deleted_order)
        body == [user_data EXCEPT !.watchlists = updated_watchlists]
    IN
    Reply(replace_item(container, user_data.id, body), 204, "No Content",
          <<>>)

---------------------------------------------------------------------------
\* Portfolio handlers (api/portfolios.py)

\* AddHoldingRequest: Field(gt=0) on quantity and avg_price, validate_symbol
AddHoldingRequest(symbol, quantity, avg_price) ==
    LET v == upper(strip(symbol)) IN
    [ok |-> /\ quantity > 0
            /\ avg_price > 0
            /\ \A i \in 1..Len(v) : IsAlnumChar(v[i]) \/ v[i] = "."
            /\ ~(Len(v) < 1 \/ Len(v) > SYMBOL_MAX_LENGTH),
     symbol |-> v]

\* UpdateHoldingRequest: every field Optional, Field(None, gt=0)
UpdateHoldingRequest(quantity, avg_price, notes) ==
    /\ quantity # None => quantity[1] > 0
    /\ avg_price # None => avg_price[1] > 0

\* HoldingItem(...).model_dump(): symbol, quantity, avg_price, purchase_date
HoldingItem(symbol, quantity, avg_price) ==
    [ok |-> quantity > 0 /\ avg_price > 0,
     item |-> [symbol |-> symbol, quantity |-> Some(quantity),
               avg_price |-> Some(avg_price), purchase_date |-> 0]]

\* for idx, portfolio in enumerate(portfolios): first index with that id,
\* 0 when there is none (portfolio_index is None)
FindPortfolio(portfolios, portfolio_id) ==
    LET found == {i \in 1..Len(portfolios) :
                     portfolios[i].id = portfolio_id}
    IN IF found = {} THEN 0 ELSE CHOOSE i \in found : \A j \in found : i <= j

\* for idx, holding in enumerate(holdings): first index with that id, or 0
FindHolding(holdings, holding_id) ==
    LET found == {i \in 1..Len(holdings) : holdings[i].id = holding_id}
    IN IF found = {} THEN 0 ELSE CHOOSE i \in found : \A j \in found : i <= j

\* Decimal(str(x)) raises InvalidOperation for x = None
DecimalOk(x) == x # None

\* Amounts of money are whole numbers of the smallest unit of the currency
\* (175.50 is 17550); a Decimal quotient is kept to RateScale-ths, where the
\* Decimal context keeps 28 significant digits.
RateScale == 100

\* a / b for b > 0, rounded half-even (the Decimal context's rounding)
DecimalDivide(a, b) ==
    LET n == a * RateScale
        q == n \div b
        r == n % b
    IN IF 2 * r < b THEN q
       ELSE IF 2 * r > b THEN q + 1
       ELSE IF q % 2 = 0 THEN q ELSE q + 1

RECURSIVE Sum(_)
Sum(amounts) ==
    IF amounts = <<>> THEN 0 ELSE Head(amounts) + Sum(Tail(amounts))

\* stock_service.get_quote(symbol) as the provider answers at the time of
\* the request: None, or a quote whose current_price is
\* float(quote.get("05. price", 0))
get_quote(quotes, symbol) ==
    IF symbol \in DOMAIN quotes THEN quotes[symbol] ELSE None

\* a helper that loses the price of every symbol
get_stock_info_unpriced(quotes, symbol) ==
    [current_price |-> None, company_name |-> symbol]

\* get_stock_info(symbol)["current_price"]: None without quote data
get_stock_info(quotes, symbol) ==
    LET quote_data == get_quote(quotes, symbol) IN
    [current_price |-> IF quote_data = None THEN None ELSE quote_data,
     company_name |-> symbol]

\* GET /watchlist: the items in display order, each with the stock info that
\* get_stock_info returns for its symbol
get_watchlist(container, user_id, quotes) ==
    LET users == query_items(container, user_id) IN
    IF users = <<>> THEN Reply(container, 404, "User not found", <<>>)
    ELSE
    LET items == SortByDisplayOrder(users[1].watchlists) IN
    IF items = <<>>
    THEN Reply(container, 200, "",
               [items |-> <<>>, total |-> 0,
                max_items |-> MAX_WATCHLIST_ITEMS])
    ELSE IF WatchlistItemResponse(ItemResponseKeys)
    THEN Reply(container, 200, "",
               [items |-> ListOf([i \in 1..Len(items) |->
                             [symbol |-> items[i].symbol,
                              display_order |-> items[i].display_order,
                              notes |-> items[i].notes,
                              current_price |->
                                  get_stock_info(quotes, items[i].symbol)
                                      .current_price]]),
                total |-> Len(items),
                max_items |-> MAX_WATCHLIST_ITEMS])
    ELSE Reply(container, 500, "Internal Server Error", <<>>)

\* "if current_price:" is false for None and for 0
Truthy(current_price) == current_price # None /\ current_price[1] # 0

\* a holding without a price valued at nothing
MarketValueOrZero(quantity, cost_basis, current_price) ==
    IF Truthy(current_price) THEN quantity * current_price[1] ELSE 0

\* market_value: quantity * current_price, cost_basis without a price
MarketValue(quantity, cost_basis, current_price) ==
    IF Truthy(current_price) THEN quantity * current_price[1] ELSE cost_basis

\* the gain taken as the whole market value
ProfitLossGross(market_value, cost_basis, current_price) ==
    IF Truthy(current_price) THEN market_value ELSE 0

\* profit_loss: market_value - cost_basis, Decimal(0) without a price
ProfitLoss(market_value, cost_basis, current_price) ==
    IF Truthy(current_price) THEN market_value - cost_basis ELSE 0

\* the rate taken on the current value
ReturnRateOnValue(profit_loss, cost_basis) ==
    IF cost_basis + profit_loss > 0
    THEN DecimalDivide(profit_loss, cost_basis + profit_loss) * 100
    ELSE 0

\* (profit_loss / cost_basis * 100) if cost_basis > 0 else Decimal(0), in
\* RateScale-ths of a percent
ReturnRate(profit_loss, cost_basis) ==
    IF cost_basis > 0 THEN DecimalDivide(profit_loss, cost_basis) * 100
    ELSE 0

\* one HoldingResponse of the summary
HoldingResponse(holding, stock_info) ==
    LET quantity == holding.quantity[1]
        avg_price == holding.avg_price[1]
        current_price == stock_info.current_price
        cost_basis == quantity * avg_price
        market_value == MarketValue(quantity, cost_basis, current_price)
        profit_loss == ProfitLoss(market_value, cost_basis, current_price)
    IN [id |-> holding.id,
        symbol |-> holding.symbol,
        quantity |-> quantity,
        avg_price |-> avg_price,
        cost_basis |-> cost_basis,
        current_price |-> IF Truthy(current_price) THEN current_price
                          ELSE None,
        current_value |-> market_value,
        profit_loss |-> profit_loss,
        return_rate |-> IF Truthy(current_price)
                        THEN ReturnRate(profit_loss, cost_basis)
                        ELSE 0,
        notes |-> IF "notes" \in DOMAIN holding THEN holding.notes ELSE None]

\* PortfolioSummary(total_...): the usd_ and krw_ fields are not passed and
\* take their default, Decimal(0)
PortfolioSummary(total_holdings, total_cost_basis, total_current_value) ==
    LET total_profit_loss == total_current_value - total_cost_basis IN
    [total_holdings |-> total_holdings,
     total_cost_basis |-> total_cost_basis,
     total_current_value |-> total_current_value,
     total_profit_loss |-> total_profit_loss,
     total_return_rate |-> ReturnRate(total_profit_loss, total_cost_basis),
     usd_cost_basis |-> 0, usd_current_value |-> 0,
     usd_profit_loss |-> 0, usd_return_rate |-> 0,
     krw_cost_basis |-> 0, krw_current_value |-> 0,
     krw_profit_loss |-> 0, krw_return_rate |-> 0]

\* GET /portfolios/{portfolio_id}/summary; quotes is what the provider
\* answers for each symbol while the request is served
get_portfolio_summary(container, user_id, portfolio_id, quotes) ==
    LET users == query_items(container, user_id) IN
    IF users = <<>> THEN Reply(container, 404, "User not found", <<>>)
    ELSE
    LET portfolios == users[1].portfolios
        portfolio_index == FindPortfolio(portfolios, portfolio_id)
    IN
    IF portfolio_index = 0
    THEN Reply(container, 404, "Portfolio not found", <<>>)
    ELSE
    LET holdings == portfolios[portfolio_index].holdings IN
    IF holdings = <<>>
    THEN Reply(container, 200, "OK",
               [holdings |-> <<>>, summary |-> PortfolioSummary(0, 0, 0)])
    ELSE IF \E i \in 1..Len(holdings) :
          ~DecimalOk(holdings[i].quantity) \/ ~DecimalOk(holdings[i].avg_price)
    THEN Reply(container, 500, "Internal Server Error", <<>>)
    ELSE
    LET holdings_responses ==
            ListOf([i \in 1..Len(holdings) |->
                HoldingResponse(holdings[i],
                    get_stock_info(quotes, holdings[i].symbol))])
        total_cost_basis ==
            Sum(ListOf([i \in 1..Len(holdings) |->
                           holdings_responses[i].cost_basis]))
        total_current_value ==
            Sum(ListOf([i \in 1..Len(holdings) |->
                           holdings_responses[i].current_value]))
    IN Reply(container, 200, "OK",
             [holdings |-> holdings_responses,
              summary |-> PortfolioSummary(Len(holdings), total_cost_basis,
                                           total_current_value)])

\* POST /portfolios/{portfolio_id}/holdings; symbol is the validated
\* request.symbol, new_id the value of uuid.uuid4()
add_holding(container, user_id, portfolio_id, symbol, quantity, avg_price, new_id) ==
    LET users == query_items(container, user_id) IN
    IF users = <<>> THEN Reply(container, 404, "User not found", <<>>)
    ELSE
    LET user_data == users[1]
        portfolios == user_data.portfolios
        portfolio_index == FindPortfolio(portfolios, portfolio_id)
    IN
    IF portfolio_index = 0
    THEN Reply(container, 404, "Portfolio not found", <<>>)
    ELSE
    LET holdings == portfolios[portfolio_index].holdings IN
    IF \E i \in 1..Len(holdings) : holdings[i].symbol = symbol
    THEN Reply(container, 400, "already exists in portfolio", <<>>)
    ELSE IF Len(holdings) >= MAX_HOLDINGS_PER_PORTFOLIO
    THEN Reply(container, 400, "Holdings limit reached", <<>>)
    ELSE
    LET new_holding == HoldingItem(symbol, quantity, avg_price) IN
    IF ~new_holding.ok
    THEN Reply(container, 500, "Internal Server Error", <<>>)
    ELSE
    LET holding_dict ==
            [id |-> new_id, symbol |-> new_holding.item.symbol,
             quantity |-> new_holding.item.quantity,
             avg_price |-> new_holding.item.avg_price,
             purchase_date |-> new_holding.item.purchase_date]
        body == [user_data EXCEPT
                    !.portfolios[portfolio_index].holdings =
                        Append(holdings, holding_dict)]
    IN
    Reply(replace_item(container, user_data.id, body), 201, "Created",
          <<[id |-> new_id, symbol |-> symbol, quantity |-> Some(quantity),
             avg_price |-> Some(avg_price), notes |-> None]>>)

\* PUT /portfolios/{portfolio_id}/holdings/{holding_id}; the request passed
\* UpdateHoldingRequest
update_holding(container, user_id, portfolio_id, holding_id, quantity, avg_price, notes) ==
    LET users == query_items(container, user_id) IN
    IF users = <<>> THEN Reply(container, 404, "User not found", <<>>)
    ELSE
    LET user_data == users[1]
        portfolios == user_data.portfolios
        portfolio_index == FindPortfolio(portfolios, portfolio_id)
    IN
    IF portfolio_index = 0
    THEN Reply(container, 404, "Portfolio not found", <<>>)
    ELSE
    LET holdings == portfolios[portfolio_index].holdings
        holding_index == FindHolding(holdings, holding_id)
    IN
    IF holding_index = 0
    THEN Reply(container, 404, "Holding not found", <<>>)
    ELSE
    LET holding == [holdings[holding_index] EXCEPT
                       !.quantity = quantity, !.avg_price = avg_price]
        body == [user_data EXCEPT
                    !.portfolios[portfolio_index].holdings[holding_index] =
                        holding]
        updated == replace_item(container, user_data.id, body)
    IN
    IF ~DecimalOk(quantity) \/ ~DecimalOk(avg_price)
    THEN Reply(updated, 500, "Internal Server Error", <<>>)
    ELSE Reply(updated, 200, "OK",
               <<[id |-> holding_id, symbol |-> holding.symbol,
                  quantity |-> quantity, avg_price |-> avg_price,
                  notes |-> None]>>)

\* the holdings up to the one found: those after it go with it
updated_holdings_up_to(holdings, holding_id) ==
    SubSeq(holdings, 1, FindHolding(holdings, holding_id) - 1)

\* updated_holdings: every holding but the one with the id, in their order
updated_holdings(holdings, holding_id) ==
    SelectSeq(holdings, LAMBDA holding : holding.id # holding_id)

\* the handler dropping a portfolio with its last holding
delete_holding_drop_empty(container, user_id, portfolio_id, holding_id) ==
    LET users == query_items(container, user_id) IN
    IF users = <<>> THEN Reply(container, 404, "User not found", <<>>)
    ELSE
    LET user_data == users[1]
        portfolios == user_data.portfolios
        portfolio_index == FindPortfolio(portfolios, portfolio_id)
    IN
    IF portfolio_index = 0
    THEN Reply(container, 404, "Portfolio not found", <<>>)
    ELSE
    LET holdings == portfolios[portfolio_index].holdings IN
    IF FindHolding(holdings, holding_id) = 0
    THEN Reply(container, 404, "Holding not found", <<>>)
    ELSE
    LET body == IF updated_holdings(holdings, holding_id) = <<>>
                THEN [user_data EXCEPT
                         !.portfolios = SelectSeq(portfolios,
                             LAMBDA portfolio : portfolio.id # portfolio_id)]
                ELSE [user_data EXCEPT
                         !.portfolios[portfolio_index].holdings =
                             updated_holdings(holdings, holding_id)]
    IN
    Reply(replace_item(container, user_data.id, body), 204, "No Content",
          <<>>)

\* DELETE /portfolios/{portfolio_id}/holdings/{holding_id}
delete_holding(container, user_id, portfolio_id, holding_id) ==
    LET users == query_items(container, user_id) IN
    IF users = <<>> THEN Reply(container, 404, "User not found", <<>>)
    ELSE
    LET user_data == users[1]
        portfolios == user_data.portfolios
        portfolio_index == FindPortfolio(portfolios, portfolio_id)
    IN
    IF portfolio_index = 0
    THEN Reply(container, 404, "Portfolio not found", <<>>)
    ELSE
    LET holdings == portfolios[portfolio_index].holdings IN
    IF FindHolding(holdings, holding_id) = 0
    THEN Reply(container, 404, "Holding not found", <<>>)
    ELSE
    LET body == [user_data EXCEPT
                    !.portfolios[portfolio_index].holdings =
                        updated_holdings(holdings, holding_id)]
    IN
    Reply(replace_item(container, user_data.id, body), 204, "No Content",
          <<>>)

---------------------------------------------------------------------------
\* State

VARIABLES
    store,      \* the container: user id -> user document
    uuids,      \* how many holding ids uuid.uuid4() has produced
    prev,       \* the container as the last request found it
    last,       \* the last request and the response its caller observed
    stock_quotes,   \* the StockQuote table: symbol -> cached quote
    now,        \* datetime.utcnow(), in seconds
    fetched_at, \* symbol -> when the provider last answered with a quote
    top_movers_service, \* the TopMoversService singleton
    inflight,   \* request slot -> the request suspended after its load
    executor    \* thread pool -> its queued and its running fetches

vars ==
    <<store, uuids, prev, last, stock_quotes, now, fetched_at,
      top_movers_service, inflight, executor>>

\* Request inputs.  The first user sends the full set of requests; the
\* second user, who is there to observe isolation, a smaller one.
RawSymbols ==
    {<<"A">>, <<"a">>, <<"B">>, <<"C">>, <<"a", " ">>, <<"-">>}

RequestSymbols(user_id) ==
    CASE user_id = "u1" -> RawSymbols
      [] user_id = "u2" -> {<<"A">>, <<"a">>}
      [] OTHER -> {<<"A">>}

\* notes are sent for one symbol only, which bounds the stored notes
NoteInputs(symbol) ==
    IF upper(strip(symbol)) = <<"A">> THEN {None, Some("n")} ELSE {None}

OrderSymbols == {<<"A">>, <<"B">>, <<"C">>}

Injective(f) == \A i, j \in DOMAIN f : f[i] = f[j] => i = j

OrderInputs(user_id) ==
    IF user_id = "u2"
    THEN {<<>>, << <<"A">> >>, << <<"B">> >>, << <<"A">>, <<"B">> >>}
    ELSE IF user_id # "u1" THEN {<< <<"A">> >>}
    ELSE {f \in UNION {[1..n -> OrderSymbols] :
                            n \in 0..Cardinality(OrderSymbols)} :
             Injective(f)}
         \cup {<< <<"A">>, <<"A">> >>, << <<"a">> >>}

\* register_user (api/auth.py): UserDocument with an empty watchlist and one
\* PortfolioItem(name=name) per settings.PORTFOLIO_NAMES, is_active=True and
\* last_login_at the time of registration
UserDocument(u) ==
    [id |-> u,
     is_active |-> TRUE,
     last_login_at |-> 0,
     watchlists |-> <<>>,
     portfolios |-> ListOf([k \in 1..Len(PORTFOLIO_NAMES) |->
                               [id |-> PortfolioId(u, k),
                                name |-> PORTFOLIO_NAMES[k],
                                holdings |-> <<>>,
                                created_at |-> 0]])]

Registered == [u \in Users |-> UserDocument(u)]

\* The container the behaviours start from: both users registered, and one
\* holding added to the first user's second portfolio and to the second
\* user's first portfolio (by add_holding, with the first two uuids)
SeedCount == 2

Seeded ==
    add_holding(
        add_holding(Registered, "u1", PortfolioId("u1", 2), <<"A">>, 1, 1, 1)
            .container,
        "u2", PortfolioId("u2", 1), <<"A">>, 1, 1, 2).container

NoRequest ==
    [op |-> "none", user |-> "u0", status |-> 0, detail |-> "", body |-> <<>>,
     symbol |-> <<>>, order |-> <<>>, pid |-> GhostPortfolioId, hid |-> 0,
     quantity |-> None, avg_price |-> None, notes |-> None,
     at |-> 0, fetches |-> 0, answer |-> None, entry |-> None,
     fetched |-> None, force_refresh |-> FALSE,
     stale |-> FALSE, rival |-> None]

\* the requests that can be under way at once
Slots == {"p1", "p2"}

\* TopMoversService.__init__: nothing cached; ever_fetched remembers whether
\* a fetch of this instance has succeeded
TopMoversService ==
    [_cache |-> None, _cache_time |-> None, ever_fetched |-> FALSE]

\* executor = ThreadPoolExecutor(max_workers=5), one of api/watchlist.py and
\* one of api/portfolios.py
max_workers == 5

Executors == {"watchlist", "portfolios"}

ThreadPoolExecutor == [queued |-> 0, running |-> 0]

\* no quote has been cached or fetched yet
NoStockQuotes == [symbol \in {} |-> None]

InitQuotes ==
    /\ stock_quotes = NoStockQuotes
    /\ now = 0
    /\ fetched_at = NoStockQuotes
    /\ top_movers_service = TopMoversService
    /\ inflight = [p \in Slots |-> None]
    /\ executor = [pool \in Executors |-> ThreadPoolExecutor]

Init ==
    /\ store = Seeded
    /\ uuids = SeedCount
    /\ prev = Seeded
    /\ last = NoRequest
    /\ InitQuotes

\* FastAPI answers 422 before the handler runs when the request model is
\* rejected
Unprocessable(container) ==
    Reply(container, 422, "Unprocessable Entity", <<>>)

\* one request: the handler's container becomes the store, the response and
\* the request are remembered
Serve(r, request) ==
    /\ store' = r.container
    /\ prev' = store
    /\ last' = [request EXCEPT !.status = r.status, !.detail = r.detail,
                               !.body = r.body]
    /\ UNCHANGED <<stock_quotes, now, fetched_at, top_movers_service,
                 inflight, executor>>

\* The endpoints whose body is a request model: the model is validated first
\* (request: WatchlistAddRequest, ...), the handler runs on what it accepted
add_to_watchlist_endpoint(container, user_id, symbol, notes) ==
    LET request == WatchlistAddRequest(symbol) IN
    IF request.ok
    THEN add_to_watchlist(container, user_id, request.symbol, notes)
    ELSE Unprocessable(container)

reorder_watchlist_endpoint(container, user_id, symbol_order) ==
    IF WatchlistReorderRequest(symbol_order)
    THEN reorder_watchlist(container, user_id, symbol_order)
    ELSE Unprocessable(container)

add_holding_endpoint(container, user_id, portfolio_id, symbol, quantity, avg_price, new_id) ==
    LET request == AddHoldingRequest(symbol, quantity, avg_price) IN
    IF request.ok
    THEN add_holding(container, user_id, portfolio_id, request.symbol,
                     quantity, avg_price, new_id)
    ELSE Unprocessable(container)

update_holding_endpoint(container, user_id, portfolio_id, holding_id, quantity, avg_price, notes) ==
    IF UpdateHoldingRequest(quantity, avg_price, notes)
    THEN update_holding(container, user_id, portfolio_id, holding_id,
                        quantity, avg_price, notes)
    ELSE Unprocessable(container)

\* what the provider answers during a summary request: nothing for any
\* symbol, or a price for every symbol; the first user's requests also meet
\* a quote without a price (0) and a price for the symbol A only
NoQuotes == [symbol \in {} |-> None]

QuotedSymbols == {<<"A">>, <<"B">>, <<"C">>, <<"B", ".", "K", "S">>}

AllAt(price) == [symbol \in QuotedSymbols |-> Some(price)]

QuoteInputs(user_id) ==
    IF user_id = "u1"
    THEN {NoQuotes, AllAt(18000), AllAt(0),
          [symbol \in {<<"A">>} |-> Some(3)]}
    ELSE {NoQuotes, AllAt(18000)}

\* the provider's answers during a watchlist read
WatchlistQuoteInputs == {NoQuotes, AllAt(18000)}

GetWatchlist ==
    \E user_id \in UserIds :
    \E quotes \in WatchlistQuoteInputs :
    \E r \in {get_watchlist(store, user_id, quotes)} :
        /\ Serve(r, [NoRequest EXCEPT !.op = "get_watchlist",
                        !.user = user_id])
        /\ UNCHANGED uuids

AddToWatchlist ==
    \E user_id \in UserIds :
    \E symbol \in RequestSymbols(user_id) :
    \E notes \in NoteInputs(symbol) :
    \E r \in {add_to_watchlist_endpoint(store, user_id, symbol, notes)} :
        /\ Serve(r, [NoRequest EXCEPT !.op = "add_to_watchlist",
                        !.user = user_id, !.symbol = symbol])
        /\ UNCHANGED uuids

ReorderWatchlist ==
    \E user_id \in UserIds :
    \E symbol_order \in OrderInputs(user_id) :
    \E r \in {reorder_watchlist_endpoint(store, user_id, symbol_order)} :
        /\ Serve(r, [NoRequest EXCEPT !.op = "reorder_watchlist",
                        !.user = user_id, !.order = symbol_order])
        /\ UNCHANGED uuids

UpdateWatchlistItem ==
    \E user_id \in UserIds :
    \E symbol \in RequestSymbols(user_id) :
    \E notes \in NoteInputs(symbol) :
    \E r \in {update_watchlist_item(store, user_id, symbol, notes)} :
        /\ Serve(r, [NoRequest EXCEPT !.op = "update_watchlist_item",
                        !.user = user_id, !.symbol = symbol])
        /\ UNCHANGED uuids

RemoveFromWatchlist ==
    \E user_id \in UserIds :
    \E symbol \in RequestSymbols(user_id) :
    \E r \in {remove_from_watchlist(store, user_id, symbol)} :
        /\ Serve(r, [NoRequest EXCEPT !.op = "remove_from_watchlist",
                        !.user = user_id, !.symbol = symbol])
        /\ UNCHANGED uuids

NextWatchlist ==
    \/ GetWatchlist
    \/ AddToWatchlist
    \/ ReorderWatchlist
    \/ UpdateWatchlistItem
    \/ RemoveFromWatchlist

SpecWatchlist == Init /\ [][NextWatchlist]_vars

\* Portfolio request inputs
PortfolioIdInputs(user_id) ==
    CASE user_id = "u1" -> {PortfolioId("u1", 1), PortfolioId("u1", 2),
                            PortfolioId("u2", 1), GhostPortfolioId}
      [] user_id = "u2" -> {PortfolioId("u2", 1), PortfolioId("u1", 1)}
      [] OTHER -> {PortfolioId("u1", 1)}

\* 0 is an id uuid4() never produced; the seeded holding of the first user's
\* second portfolio (id 1) is never the target
HoldingIdInputs == {0} \cup 2..MaxHoldingIds

\* the symbols of add-holding requests
HoldingSymbolInputs(user_id) == RequestSymbols(user_id) \ {<<"a", " ">>}

\* <<quantity, avg_price>> of an add request
AddAmountInputs == {<<1, 1>>, <<0, 1>>, <<1, 0>>}

\* the portfolios a user asks to add to, update in and delete from: an own
\* one, a foreign one, no one's
AddPortfolioIdInputs(user_id) ==
    PortfolioIdInputs(user_id) \ {PortfolioId("u1", 2)}

\* the holdings a user asks to update: the second user's seeded one and the
\* first one added afterwards
UpdateHoldingIdInputs == {0, SeedCount, SeedCount + 1}

\* <<quantity, avg_price>> of an update request, each optional
UpdateAmountInputs(user_id) ==
    IF user_id = "u1"
    THEN {<<None, None>>, <<Some(2), None>>, <<Some(2), Some(2)>>,
          <<Some(0), None>>, <<None, Some(0)>>}
    ELSE {<<Some(2), Some(2)>>}

\* the notes of an update request: sent by the first user, alone or with
\* both amounts
UpdateNoteInputs(user_id, amount) ==
    IF user_id = "u1" /\ amount \in {<<None, None>>, <<Some(2), Some(2)>>}
    THEN {None, Some("n")}
    ELSE {None}

\* the notes of an add request: sent by the first user with one symbol
HoldingNoteInputs(user_id, symbol, amount) ==
    IF user_id = "u1" /\ symbol = <<"B">> /\ amount = <<1, 1>>
    THEN {None, Some("n")}
    ELSE {None}

GetPortfolioSummary ==
    \E user_id \in UserIds :
    \E portfolio_id \in PortfolioIdInputs(user_id) :
    \E quotes \in QuoteInputs(user_id) :
    \E r \in {get_portfolio_summary(store, user_id, portfolio_id, quotes)} :
        /\ Serve(r, [NoRequest EXCEPT !.op = "get_portfolio_summary",
                        !.user = user_id, !.pid = portfolio_id])
        /\ UNCHANGED uuids

AddHolding ==
    \E user_id \in UserIds :
    \E portfolio_id \in AddPortfolioIdInputs(user_id) :
    \E symbol \in HoldingSymbolInputs(user_id) :
    \E amount \in AddAmountInputs :
    \E notes \in HoldingNoteInputs(user_id, symbol, amount) :
    \E r \in {add_holding_endpoint(store, user_id, portfolio_id, symbol,
                                   amount[1], amount[2], uuids + 1)} :
        /\ r.status = 201 => uuids < MaxHoldingIds
        /\ Serve(r, [NoRequest EXCEPT !.op = "add_holding",
                        !.user = user_id, !.pid = portfolio_id,
                        !.symbol = symbol, !.notes = notes])
        /\ uuids' = IF r.status = 201 THEN uuids + 1 ELSE uuids

UpdateHolding ==
    \E user_id \in UserIds :
    \E portfolio_id \in AddPortfolioIdInputs(user_id) :
    \E holding_id \in UpdateHoldingIdInputs :
    \E amount \in UpdateAmountInputs(user_id) :
    \E notes \in UpdateNoteInputs(user_id, amount) :
    \E r \in {update_holding_endpoint(store, user_id, portfolio_id,
                                      holding_id, amount[1], amount[2],
                                      notes)} :
        /\ Serve(r, [NoRequest EXCEPT !.op = "update_holding",
                        !.user = user_id, !.pid = portfolio_id,
                        !.hid = holding_id, !.quantity = amount[1],
                        !.avg_price = amount[2], !.notes = notes])
        /\ UNCHANGED uuids

DeleteHolding ==
    \E user_id \in UserIds :
    \E portfolio_id \in AddPortfolioIdInputs(user_id) :
    \E holding_id \in HoldingIdInputs :
    \E r \in {delete_holding(store, user_id, portfolio_id, holding_id)} :
        /\ Serve(r, [NoRequest EXCEPT !.op = "delete_holding",
                        !.user = user_id, !.pid = portfolio_id,
                        !.hid = holding_id])
        /\ UNCHANGED uuids

NextPortfolio ==
    \/ GetPortfolioSummary
    \/ AddHolding
    \/ UpdateHolding
    \/ DeleteHolding

SpecPortfolio == Init /\ [][NextPortfolio]_vars

\* Valuation: the summaries of the portfolios that up to two add-holding
\* requests of the first user leave behind, under every quote input.
\* <<symbol, quantity, avg_price>> of the add requests
ValuationAdds ==
    {<< <<"A">>, 10, 17550 >>, << <<"A">>, 1, 3 >>, << <<"A">>, 3, 18001 >>,
     << <<"B", ".", "K", "S">>, 10, 17550 >>,
     << <<"B", ".", "K", "S">>, 7, 18000 >>,
     << <<"B", ".", "K", "S">>, 2, 1 >>}

MaxValuationAdds == 2

RECURSIVE AddAll(_, _, _)
AddAll(container, adds, new_id) ==
    IF adds = <<>> THEN container
    ELSE AddAll(add_holding_endpoint(container, "u1", PortfolioId("u1", 1),
                    Head(adds)[1], Head(adds)[2], Head(adds)[3], new_id)
                    .container,
                Tail(adds), new_id + 1)

InitValuation ==
    \E n \in 0..MaxValuationAdds :
    \E adds \in [1..n -> ValuationAdds] :
        /\ store = AddAll(Registered, adds, 1)
        /\ uuids = n
        /\ prev = store
        /\ last = NoRequest
        /\ InitQuotes

NextValuation == GetPortfolioSummary

SpecValuation == InitValuation /\ [][NextValuation]_vars

---------------------------------------------------------------------------
\* Quotes: GET /stocks/{symbol} with its StockQuote cache, and get_stock_info,
\* the helper through which the watchlist and portfolio reads price a symbol

\* settings.STOCK_CACHE_TTL_SECONDS
STOCK_CACHE_TTL_SECONDS == 300

\* the clock stops here
MaxTime == 452

\* the seconds that pass between two requests
ClockSteps == {150, 151}

\* StockQuote.updated_at >= datetime.utcnow() - cache_ttl
Fresh(quotes_table, symbol, utcnow) ==
    /\ symbol \in DOMAIN quotes_table
    /\ quotes_table[symbol].updated_at >= utcnow - STOCK_CACHE_TTL_SECONDS

\* db.query(StockQuote).filter(StockQuote.symbol == symbol).first()
Existing(quotes_table, symbol) ==
    IF symbol \in DOMAIN quotes_table THEN Some(quotes_table[symbol]) ELSE None

\* the row written for symbol: updated (existing) or added (db.add)
Upsert(quotes_table, symbol, row) ==
    [s \in DOMAIN quotes_table \cup {symbol} |->
        IF s = symbol THEN row ELSE quotes_table[s]]

StockQuoteResponse(symbol, cached_quote) ==
    [symbol |-> symbol, current_price |-> cached_quote.current_price,
     updated_at |-> cached_quote.updated_at]

\* the outcome of one quote retrieval: the table it leaves, the response and
\* the number of calls made to the provider
QuoteReply(quotes_table, status, detail, body, fetches) ==
    [stock_quotes |-> quotes_table, status |-> status, detail |-> detail,
     body |-> body, fetches |-> fetches]

\* GET /stocks/{symbol}; quotes is what the provider answers at the time
get_stock_quote(quotes_table, utcnow, raw_symbol, quotes) ==
    LET symbol == upper(raw_symbol) IN
    IF Fresh(quotes_table, symbol, utcnow)
    THEN QuoteReply(quotes_table, 200, "",
                    StockQuoteResponse(symbol, quotes_table[symbol]), 0)
    ELSE LET quote_data == get_quote(quotes, symbol) IN
         IF quote_data = None
         THEN QuoteReply(quotes_table, 404, "not found or data unavailable",
                         <<>>, 1)
         ELSE LET cached_quote == [current_price |-> quote_data[1],
                                   updated_at |-> utcnow]
              IN QuoteReply(Upsert(quotes_table, symbol, cached_quote), 200,
                            "", StockQuoteResponse(symbol, cached_quote), 1)

QuoteSymbolInputs == {<<"A">>, <<"a">>, <<"B">>}

InfoSymbolInputs == {<<"A">>, <<"B">>}

\* the provider has no quote, or quotes every symbol at one price
QuoteAnswers == {NoQuotes, AllAt(1), AllAt(2)}

\* the provider is asked for symbol and answers quote_data
Fetched(symbol, quote_data) ==
    IF quote_data = None THEN fetched_at
    ELSE Upsert(fetched_at, symbol, now)

\* when the provider last answered symbol with a quote, None if never
FetchedBefore(symbol) ==
    IF symbol \in DOMAIN fetched_at THEN Some(fetched_at[symbol]) ELSE None

GetStockQuote ==
    \E raw_symbol \in QuoteSymbolInputs :
    \E quotes \in QuoteAnswers :
    \E r \in {get_stock_quote(stock_quotes, now, raw_symbol, quotes)} :
        LET symbol == upper(raw_symbol)
            answer == IF r.fetches = 0 THEN None
                      ELSE get_quote(quotes, symbol)
        IN /\ stock_quotes' = r.stock_quotes
           /\ fetched_at' = Fetched(symbol, answer)
           /\ last' = [NoRequest EXCEPT !.op = "get_stock_quote",
                          !.symbol = symbol, !.status = r.status,
                          !.detail = r.detail, !.body = r.body,
                          !.at = now, !.fetches = r.fetches,
                          !.answer = answer,
                          !.entry = Existing(stock_quotes, symbol),
                          !.fetched = FetchedBefore(symbol)]
           /\ UNCHANGED <<store, uuids, prev, now, top_movers_service,
                        inflight, executor>>

\* get_stock_info(symbol), as get_watchlist and get_portfolio_summary call
\* it for each symbol they show: it asks the provider and never raises
GetStockInfo ==
    \E symbol \in InfoSymbolInputs :
    \E quotes \in QuoteAnswers :
    \E stock_info \in {get_stock_info(quotes, symbol)} :
        /\ fetched_at' = Fetched(symbol, get_quote(quotes, symbol))
        /\ last' = [NoRequest EXCEPT !.op = "get_stock_info",
                       !.symbol = symbol, !.status = 200,
                       !.body = stock_info,
                       !.at = now, !.fetches = 1,
                       !.answer = get_quote(quotes, symbol),
                       !.entry = Existing(stock_quotes, symbol),
                       !.fetched = FetchedBefore(symbol)]
        /\ UNCHANGED <<store, uuids, prev, stock_quotes, now,
                        top_movers_service, inflight, executor>>

Tick ==
    \E step \in ClockSteps :
        /\ now + step <= MaxTime
        /\ now' = now + step
        /\ UNCHANGED <<store, uuids, prev, last, stock_quotes, fetched_at,
                        top_movers_service, inflight, executor>>

NextQuotes ==
    \/ GetStockQuote
    \/ GetStockInfo
    \/ Tick

SpecQuotes == Init /\ [][NextQuotes]_vars

---------------------------------------------------------------------------
\* Top movers: TopMoversService keeps the data of its last successful fetch

\* self._cache_ttl = timedelta(hours=4), in seconds
cache_ttl == 4 * 3600

\* the clock of the top-movers behaviours stops here
MaxTopMoversTime == 21600

\* the seconds that pass between two calls
TopMoversClockSteps == {7199, 7200}

\* alpha_vantage.get_top_movers(): the data, or None when the call fails
\* (API error, rate limit, network error)
TopMoversAnswers == {None, Some("d1"), Some("d2")}

\* a validity test that lets the cache live one second too long
is_cache_valid_inclusive(service, utcnow) ==
    /\ service._cache # None
    /\ service._cache_time # None
    /\ utcnow - service._cache_time[1] <= cache_ttl

\* _is_cache_valid
is_cache_valid(service, utcnow) ==
    /\ service._cache # None
    /\ service._cache_time # None
    /\ utcnow - service._cache_time[1] < cache_ttl

\* a fetch failure that forgets the data fetched before
get_top_movers_no_fallback(service, utcnow, force_refresh, data) ==
    IF ~force_refresh /\ is_cache_valid(service, utcnow)
    THEN [service |-> service, result |-> service._cache, fetches |-> 0]
    ELSE IF data # None
    THEN [service |-> [service EXCEPT !._cache = data,
                                      !._cache_time = Some(utcnow),
                                      !.ever_fetched = TRUE],
          result |-> data, fetches |-> 1]
    ELSE [service |-> service, result |-> None, fetches |-> 1]

\* get_top_movers(force_refresh); data is what the external API answers if
\* it is called
get_top_movers(service, utcnow, force_refresh, data) ==
    IF ~force_refresh /\ is_cache_valid(service, utcnow)
    THEN [service |-> service, result |-> service._cache, fetches |-> 0]
    ELSE IF data # None
    THEN [service |-> [service EXCEPT !._cache = data,
                                      !._cache_time = Some(utcnow),
                                      !.ever_fetched = TRUE],
          result |-> data, fetches |-> 1]
    ELSE IF service._cache # None
    THEN [service |-> service, result |-> service._cache, fetches |-> 1]
    ELSE [service |-> service, result |-> None, fetches |-> 1]

\* clear_cache
clear_cache(service) ==
    [service EXCEPT !._cache = None, !._cache_time = None]

GetTopMovers ==
    \E force_refresh \in BOOLEAN :
    \E data \in TopMoversAnswers :
    \E r \in {get_top_movers(top_movers_service, now, force_refresh, data)} :
        /\ top_movers_service' = r.service
        /\ last' = [NoRequest EXCEPT !.op = "get_top_movers",
                       !.status = 200, !.body = r.result,
                       !.at = now, !.fetches = r.fetches,
                       !.answer = IF r.fetches = 0 THEN None ELSE data,
                       !.entry = top_movers_service._cache,
                       !.fetched = top_movers_service._cache_time,
                       !.force_refresh = force_refresh]
        /\ UNCHANGED <<store, uuids, prev, stock_quotes, now, fetched_at,
                    inflight, executor>>

ClearCache ==
    /\ top_movers_service' = clear_cache(top_movers_service)
    /\ last' = [NoRequest EXCEPT !.op = "clear_cache", !.at = now]
    /\ UNCHANGED <<store, uuids, prev, stock_quotes, now, fetched_at,
                    inflight, executor>>

TopMoversTick ==
    \E step \in TopMoversClockSteps :
        /\ now + step <= MaxTopMoversTime
        /\ now' = now + step
        /\ UNCHANGED <<store, uuids, prev, last, stock_quotes, fetched_at,
                        top_movers_service, inflight, executor>>

NextTopMovers ==
    \/ GetTopMovers
    \/ ClearCache
    \/ TopMoversTick

SpecTopMovers == Init /\ [][NextTopMovers]_vars

---------------------------------------------------------------------------
\* Login and deactivation (api/auth.py).  An email belongs to one user
\* document, so the query by email is the query of that user's document.

\* login_user: 401 for an unknown email, a wrong password or a deactivated
\* account; otherwise last_login_at is set on the loaded document and the
\* whole document is written back
login_user(container, user_id, password_ok, utcnow) ==
    LET users == query_items(container, user_id)
    IN IF users = <<>> THEN
           Reply(container, 401, "Invalid email or password", <<>>)
       ELSE IF ~password_ok THEN
           Reply(container, 401, "Invalid email or password", <<>>)
       ELSE IF ~users[1].is_active THEN
           Reply(container, 401, "Account is deactivated", <<>>)
       ELSE LET body == [users[1] EXCEPT !.last_login_at = utcnow]
            IN Reply(replace_item(container, user_id, body), 200, "",
                     [last_login_at |-> utcnow, is_active |-> TRUE])

\* deactivate_account: 404 unless an active document of the user exists;
\* otherwise is_active is cleared on the loaded document and the whole
\* document is written back
deactivate_account(container, user_id) ==
    LET users == SelectSeq(query_items(container, user_id),
                           LAMBDA c : c.is_active)
    IN IF users = <<>> THEN
           Reply(container, 404, "User not found", <<>>)
       ELSE LET body == [users[1] EXCEPT !.is_active = FALSE]
            IN Reply(replace_item(container, user_id, body), 204, "", <<>>)

---------------------------------------------------------------------------
\* Requests under way at once.  A handler loads the user document
\* (query_items), decides, and replaces it (replace_item); a request that is
\* suspended after its load finishes later on the document it loaded.

ReadOps == {"get_watchlist", "get_portfolio_summary"}

AccountOps == {"login_user", "deactivate_account"}

\* the handler of a request, run on the container it loaded; quotes is what
\* the provider answers to a read's fetches (no answer: failed or timed out)
Apply(request, container, quotes) ==
    CASE request.op = "add_to_watchlist" ->
            add_to_watchlist_endpoint(container, request.user,
                                      request.symbol, None)
      [] request.op = "remove_from_watchlist" ->
            remove_from_watchlist(container, request.user, request.symbol)
      [] request.op = "reorder_watchlist" ->
            reorder_watchlist_endpoint(container, request.user, request.order)
      [] request.op = "add_holding" ->
            add_holding_endpoint(container, request.user, request.pid,
                                 request.symbol, 1, 1, request.hid)
      [] request.op = "get_watchlist" ->
            get_watchlist(container, request.user, quotes)
      [] request.op = "login_user" ->
            login_user(container, request.user, TRUE, now)
      [] request.op = "deactivate_account" ->
            deactivate_account(container, request.user)
      [] OTHER ->
            get_portfolio_summary(container, request.user, request.pid,
                                  quotes)

\* whether the handler of the request reaches its replace_item
ReachesReplace(request, container) ==
    /\ request.op \notin ReadOps
    /\ IF request.op = "reorder_watchlist"
       THEN /\ request.user \in DOMAIN container
            /\ WatchlistReorderRequest(request.order)
            /\ ReorderRejection(container[request.user].watchlists,
                                request.order) = ""
       ELSE IF request.op \in AccountOps
       THEN Apply(request, container, NoQuotes).status \in {200, 204}
       ELSE Apply(request, container, NoQuotes).container # container

\* a write that adds to the stored watchlist the entries the handler added
\* to the one it loaded
replace_item_appending(container, item, body, loaded) ==
    [container EXCEPT ![item].watchlists =
        @ \o SelectSeq(body.watchlists,
                       LAMBDA e : \A i \in 1..Len(loaded[item].watchlists) :
                                     loaded[item].watchlists[i] # e)]

\* replace_item(item, body) of a handler that loaded the container loaded:
\* the body replaces the stored document, whatever it has become
replace_item_unconditional(container, item, body, loaded) ==
    replace_item(container, item, body)

\* the places of a handler, after its load, where it awaits: the reads
\* await the fetches of their quotes, the mutation handlers await nothing
suspension_points_after_load(op) == {"await"}

suspension_points(op) == IF op \in ReadOps THEN {"await"} ELSE {}

\* a handler that queries the user document again once its fetches are over
user_data_queried_again(loaded, stored) == stored

\* user_data = users[0]: what a handler works on after it has awaited is
\* the user document it loaded, it does not query again
user_data(loaded, stored) == loaded

\* the request of slot p, which loaded the container loaded, runs to its end
Finish(p, request, loaded, quotes) ==
    LET r == Apply(request, user_data(loaded, store), quotes)
        writes == ReachesReplace(request, loaded)
        outcome == [op |-> request.op, symbol |-> request.symbol,
                    status |-> r.status]
    IN /\ store' = IF writes
                   THEN replace_item_unconditional(
                            store, request.user, r.container[request.user],
                            loaded)
                   ELSE store
       /\ prev' = loaded
       /\ last' = [request EXCEPT !.status = r.status, !.detail = r.detail,
                                  !.body = r.body, !.answer = quotes,
                                  !.stale = (loaded # store)]
       /\ inflight' =
             [q \in Slots |->
                 IF q = p THEN None
                 ELSE IF /\ inflight[q] # None
                         /\ writes
                         /\ inflight[q][1].rival = None
                         /\ inflight[q][1].op \notin ReadOps
                         /\ inflight[q][1].user = request.user
                         /\ inflight[q][2] = loaded
                 THEN <<[inflight[q][1] EXCEPT !.rival = Some(outcome)],
                        inflight[q][2]>>
                 ELSE inflight[q]]
       /\ UNCHANGED <<stock_quotes, now, fetched_at, top_movers_service, executor>>

\* the mutations the first user sends at once
ConcurrentSymbols == {<<"A">>, <<"B">>}

WatchlistMutations ==
    {[NoRequest EXCEPT !.op = "add_to_watchlist", !.user = "u1",
                       !.symbol = symbol] : symbol \in ConcurrentSymbols}
    \cup {[NoRequest EXCEPT !.op = "remove_from_watchlist", !.user = "u1",
                            !.symbol = <<"A">>]}

\* the seeded portfolio of the first user holds A already
HoldingMutations ==
    {[NoRequest EXCEPT !.op = "add_holding", !.user = "u1",
                       !.pid = PortfolioId("u1", 2), !.symbol = symbol] :
        symbol \in {<<"B">>, <<"C">>}}

\* a mutation loads the user document; its holding, if it adds one, gets
\* the next uuid
Load ==
    \E p \in Slots :
    \E request \in WatchlistMutations \cup HoldingMutations :
        /\ inflight[p] = None
        /\ request.op = "add_holding" => uuids < MaxHoldingIds
        /\ uuids' = IF request.op = "add_holding" THEN uuids + 1 ELSE uuids
        /\ inflight' = [inflight EXCEPT
              ![p] = <<IF request.op = "add_holding"
                       THEN [request EXCEPT !.hid = uuids']
                       ELSE request,
                       store>>]
        /\ UNCHANGED <<store, prev, last, stock_quotes, now, fetched_at,
                        top_movers_service, executor>>

\* a loaded mutation decides and replaces
Replace ==
    \E p \in Slots :
        /\ inflight[p] # None
        /\ Finish(p, inflight[p][1], inflight[p][2], NoQuotes)
        /\ UNCHANGED uuids

NextConcurrent ==
    \/ Load
    \/ Replace

\* mutations of one user's document whose load and replace are separate
\* atomic steps
SpecConcurrent == Init /\ [][NextConcurrent]_vars

---------------------------------------------------------------------------
\* Login and deactivation of the first user while they add a holding: the
\* three handlers load the same user document and write it back whole.

MaxLoginTime == 2

AccountRequests ==
    {[NoRequest EXCEPT !.op = op, !.user = "u1"] : op \in AccountOps}
    \cup {[NoRequest EXCEPT !.op = "add_holding", !.user = "u1",
                            !.pid = PortfolioId("u1", 2),
                            !.symbol = <<"B">>]}

\* a login, a deactivation or an add_holding loads the user document
AccountLoad ==
    \E p \in Slots :
    \E request \in AccountRequests :
        /\ inflight[p] = None
        /\ request.op = "add_holding" => uuids < MaxHoldingIds
        /\ uuids' = IF request.op = "add_holding" THEN uuids + 1 ELSE uuids
        /\ inflight' = [inflight EXCEPT
              ![p] = <<IF request.op = "add_holding"
                       THEN [request EXCEPT !.hid = uuids']
                       ELSE request,
                       store>>]
        /\ UNCHANGED <<store, prev, last, stock_quotes, now, fetched_at,
                        top_movers_service, executor>>

\* datetime.utcnow() moves on
AccountTick ==
    /\ now < MaxLoginTime
    /\ now' = now + 1
    /\ UNCHANGED <<store, uuids, prev, last, stock_quotes, fetched_at,
                    top_movers_service, inflight, executor>>

NextAccount ==
    \/ AccountLoad
    \/ Replace
    \/ AccountTick

SpecAccount == Init /\ [][NextAccount]_vars

---------------------------------------------------------------------------
\* One server process: the handlers are coroutines of one event loop, a
\* handler runs until it awaits, and only then does another request run.

\* what the provider answers to the fetches of a read: every fetch times out,
\* every fetch returns, or the fetch of A returns and the others time out
EventLoopQuoteInputs ==
    {NoQuotes, AllAt(18000), [symbol \in {<<"A">>} |-> Some(3)]}

EventLoopRequests ==
    {[NoRequest EXCEPT !.op = op, !.user = "u1", !.symbol = <<"A">>] :
        op \in {"add_to_watchlist", "remove_from_watchlist"}}
    \cup {[NoRequest EXCEPT !.op = "add_holding", !.user = "u1",
                            !.pid = PortfolioId("u1", 2),
                            !.symbol = <<"B", ".", "K", "S">>]}
    \cup {[NoRequest EXCEPT !.op = "get_watchlist", !.user = "u1"]}
    \cup {[NoRequest EXCEPT !.op = "get_portfolio_summary", !.user = "u1",
                            !.pid = PortfolioId("u1", 2)]}

\* a request arrives: its handler loads the user document and runs to its
\* first await, or to its end when it awaits nothing
Handle ==
    \E p \in Slots :
    \E request \in EventLoopRequests :
    \E arrived \in {IF request.op = "add_holding"
                    THEN [request EXCEPT !.hid = uuids + 1]
                    ELSE request} :
        /\ inflight[p] = None
        /\ request.op = "add_holding" => uuids < MaxHoldingIds
        /\ uuids' = IF request.op = "add_holding" THEN uuids + 1 ELSE uuids
        /\ IF suspension_points(request.op) = {}
           THEN Finish(p, arrived, store, NoQuotes)
           ELSE /\ inflight' = [inflight EXCEPT ![p] = <<arrived, store>>]
                /\ UNCHANGED <<store, prev, last, stock_quotes, now,
                               fetched_at, top_movers_service, executor>>

\* the awaited fetches of the handler in slot p are over, each with a quote
\* or without one, and the handler runs to its end
Resume(p) ==
    \E quotes \in EventLoopQuoteInputs :
        /\ inflight[p] # None
        /\ Finish(p, inflight[p][1], inflight[p][2], quotes)
        /\ UNCHANGED uuids

NextEventLoop ==
    \/ Handle
    \/ \E p \in Slots : Resume(p)

SpecEventLoop == Init /\ [][NextEventLoop]_vars

---------------------------------------------------------------------------
\* Quote requests served by several workers at once: each has its own
\* database session, and the queries and the commit of get_stock_quote are
\* separate transactions.

\* the provider quotes the symbol at one price or at another
RaceAnswers == {AllAt(1), AllAt(2)}

\* the seconds in which a cached quote goes stale
RaceClockStep == STOCK_CACHE_TTL_SECONDS + 1

\* db.commit() of a row added with db.add: refused when the table holds the
\* symbol (unique=True), "" when the row is written
InsertRejection(quotes_table, symbol) ==
    IF symbol \in DOMAIN quotes_table THEN "IntegrityError" ELSE ""

\* the request of slot p is answered; the requests still under way have
\* overlapped with it
QuoteAnswered(p, symbol, status, body, answer) ==
    /\ last' = [NoRequest EXCEPT !.op = "get_stock_quote",
                   !.symbol = symbol, !.status = status, !.body = body,
                   !.at = now, !.answer = answer,
                   !.rival = IF inflight[p] = None THEN None
                             ELSE inflight[p].rival]
    /\ inflight' =
          [q \in Slots |->
              IF q = p \/ inflight[q] = None THEN None
              ELSE IF inflight[q].rival # None THEN inflight[q]
              ELSE [inflight[q] EXCEPT
                       !.rival = Some([status |-> status, body |-> body])]]

\* the cache query: a fresh row is returned, otherwise the provider has to
\* be asked
QuoteCacheCheck(p) ==
    /\ inflight[p] = None
    /\ IF Fresh(stock_quotes, <<"A">>, now)
       THEN QuoteAnswered(p, <<"A">>, 200,
                          StockQuoteResponse(<<"A">>, stock_quotes[<<"A">>]),
                          None)
       ELSE /\ inflight' = [inflight EXCEPT
                               ![p] = [pc |-> "fetch", symbol |-> <<"A">>,
                                       quote_data |-> None,
                                       existing |-> FALSE, rival |-> None]]
            /\ UNCHANGED last
    /\ UNCHANGED <<store, uuids, prev, stock_quotes, now, fetched_at,
                   top_movers_service, executor>>

\* StockDataService.get_quote answers, then the row of the symbol is
\* queried
QuoteFetch(p) ==
    \E quotes \in RaceAnswers :
        /\ inflight[p] # None
        /\ inflight[p].pc = "fetch"
        /\ inflight' = [inflight EXCEPT
              ![p] = [@ EXCEPT
                  !.pc = "commit",
                  !.quote_data = get_quote(quotes, inflight[p].symbol),
                  !.existing = (Existing(stock_quotes, inflight[p].symbol)
                                   # None)]]
        /\ UNCHANGED <<store, uuids, prev, last, stock_quotes, now,
                       fetched_at, top_movers_service, executor>>

\* db.commit(): the existing row is updated, or the new row is inserted
QuoteCommit(p) ==
    /\ inflight[p] # None
    /\ inflight[p].pc = "commit"
    /\ LET flight == inflight[p]
           cached_quote == [current_price |-> flight.quote_data[1],
                            updated_at |-> now]
       IN IF ~flight.existing
             /\ InsertRejection(stock_quotes, flight.symbol) # ""
          THEN /\ QuoteAnswered(p, flight.symbol, 500, <<>>,
                                flight.quote_data)
               /\ UNCHANGED stock_quotes
          ELSE /\ stock_quotes' = Upsert(stock_quotes, flight.symbol,
                                         cached_quote)
               /\ QuoteAnswered(p, flight.symbol, 200,
                                StockQuoteResponse(flight.symbol,
                                                   cached_quote),
                                flight.quote_data)
    /\ UNCHANGED <<store, uuids, prev, now, fetched_at, top_movers_service, executor>>

\* the cached quotes go stale
RaceTick ==
    /\ now + RaceClockStep <= MaxTime
    /\ now' = now + RaceClockStep
    /\ UNCHANGED <<store, uuids, prev, last, stock_quotes, fetched_at,
                   top_movers_service, inflight, executor>>

NextQuoteRace ==
    \/ \E p \in Slots : QuoteCacheCheck(p)
    \/ \E p \in Slots : QuoteFetch(p)
    \/ \E p \in Slots : QuoteCommit(p)
    \/ RaceTick

SpecQuoteRace == Init /\ [][NextQuoteRace]_vars

---------------------------------------------------------------------------
\* The fan-out of the reads: get_watchlist hands one get_stock_info call
\* per entry to the executor of api/watchlist.py, get_portfolio_summary one
\* per holding to the executor of api/portfolios.py.

\* the work items that wait in the queue of one executor
MaxQueued == 6

\* how many symbols a read shows
FanOutSizes == {1, 6}

\* loop.run_in_executor(executor, get_stock_info, symbol) for each symbol
\* of a read
run_in_executor(pool, count) ==
    /\ executor[pool].queued + count <= MaxQueued
    /\ executor' = [executor EXCEPT ![pool].queued = @ + count]
    /\ UNCHANGED <<store, uuids, prev, last, stock_quotes, now, fetched_at,
                   top_movers_service, inflight>>

WatchlistFanOut == \E count \in FanOutSizes : run_in_executor("watchlist", count)

SummaryFanOut == \E count \in FanOutSizes : run_in_executor("portfolios", count)

\* a worker thread of the pool takes a work item and calls the provider
WorkerStarts ==
    \E pool \in Executors :
        /\ executor[pool].queued > 0
        /\ executor[pool].running < max_workers
        /\ executor' = [executor EXCEPT ![pool].queued = @ - 1,
                                        ![pool].running = @ + 1]
        /\ UNCHANGED <<store, uuids, prev, last, stock_quotes, now,
                       fetched_at, top_movers_service, inflight>>

\* the provider answers or the call times out
WorkerReturns ==
    \E pool \in Executors :
        /\ executor[pool].running > 0
        /\ executor' = [executor EXCEPT ![pool].running = @ - 1]
        /\ UNCHANGED <<store, uuids, prev, last, stock_quotes, now,
                       fetched_at, top_movers_service, inflight>>

NextFanOut ==
    \/ WatchlistFanOut
    \/ SummaryFanOut
    \/ WorkerStarts
    \/ WorkerReturns

SpecFanOut == Init /\ [][NextFanOut]_vars

---------------------------------------------------------------------------
\* Properties

\* the display_order values of a watchlist, in sorted order
SortedOrders(watchlists) ==
    LET sorted == SortByDisplayOrder(watchlists)
    IN [i \in 1..Len(sorted) |-> sorted[i].display_order]

Dense(watchlists) ==
    \A i \in 1..Len(watchlists) : SortedOrders(watchlists)[i] = i - 1

\* C1: starting from empty watchlists, after any sequence of add, remove and
\* reorder requests (accepted or rejected) every stored watchlist has at most
\* MAX_WATCHLIST_ITEMS entries and its display_order values, sorted, are
\* exactly 0, 1, ..., n-1.
C1_Density ==
    \A u \in Users :
        /\ Len(store[u].watchlists) <= MAX_WATCHLIST_ITEMS
        /\ Dense(store[u].watchlists)

\* a reordered two-entry watchlist has just lost the entry ranked first
C1_Witness ==
    /\ last.op = "remove_from_watchlist"
    /\ last.status = 204
    /\ Len(prev[last.user].watchlists) = 2
    /\ prev[last.user].watchlists[1].display_order = 1
    /\ Len(store[last.user].watchlists) = 1
    /\ store[last.user].watchlists[1].symbol
          = prev[last.user].watchlists[1].symbol

\* the same symbol up to letter case
SameSymbol(a, b) == upper(a) = upper(b)

Holds(watchlists, symbol) ==
    \E i \in 1..Len(watchlists) : SameSymbol(watchlists[i].symbol, symbol)

\* C2: an add of a symbol that the watchlist already holds in any letter case
\* is answered DuplicateSymbol (400 "already in watchlist"), and an add of a
\* holding (with accepted quantity and price) whose symbol the same portfolio
\* already holds in any letter case is answered DuplicateSymbol (400 "already
\* exists in portfolio").
C2_DuplicateSymbol ==
    /\ (/\ last.op = "add_to_watchlist"
        /\ last.user \in Users
        /\ Holds(prev[last.user].watchlists, last.symbol))
       => last.status = 400 /\ last.detail = "already in watchlist"
    /\ \A u \in Users : \A s \in RawSymbols : \A n \in {None, Some("n")} :
          Holds(store[u].watchlists, s) =>
              LET r == add_to_watchlist_endpoint(store, u, s, n)
              IN r.status = 400 /\ r.detail = "already in watchlist"
    /\ \A u \in Users : \A k \in 1..Len(store[u].portfolios) :
       \A s \in RawSymbols :
          Holds(store[u].portfolios[k].holdings, s) =>
              LET r == add_holding_endpoint(store, u, store[u].portfolios[k].id,
                                            s, 1, 1, uuids + 1)
              IN r.status = 400 /\ r.detail = "already exists in portfolio"

\* a lower-case spelling of a stored symbol has just been refused
C2_Witness ==
    /\ last.op = "add_to_watchlist"
    /\ last.symbol = <<"a">>
    /\ last.status = 400
    /\ last.detail = "already in watchlist"
    /\ \E i \in 1..Len(store[last.user].watchlists) :
          store[last.user].watchlists[i].symbol = <<"A">>
    /\ store = prev

\* the symbols of a stored list, the symbols of a request list
Symbols(items) == {items[i].symbol : i \in 1..Len(items)}

Range(f) == {f[i] : i \in 1..Len(f)}

\* an accepted add of a symbol the watchlist does not hold has been served
FreshAdd ==
    /\ last.op = "add_to_watchlist"
    /\ last.user \in Users
    /\ WatchlistAddRequest(last.symbol).ok
    /\ ~Holds(prev[last.user].watchlists, WatchlistAddRequest(last.symbol).symbol)

\* what add_to_watchlist stores: below the limit the entry is appended to the
\* stored watchlist, at the limit the add is refused with LimitExceeded; no
\* watchlist ever exceeds the limit
C3_WatchlistStored ==
    /\ FreshAdd =>
          LET old == prev[last.user].watchlists
              new == store[last.user].watchlists
          IN IF Len(old) < MAX_WATCHLIST_ITEMS
             THEN /\ Len(new) = Len(old) + 1
                  /\ new[Len(new)].symbol = WatchlistAddRequest(last.symbol).symbol
                  /\ SubSeq(new, 1, Len(old)) = old
             ELSE /\ last.status = 400
                  /\ last.detail = "Watchlist limit reached"
                  /\ store = prev
    /\ \A u \in Users : Len(store[u].watchlists) <= MAX_WATCHLIST_ITEMS

\* what add_holding does: below the limit an add of a symbol the portfolio
\* does not hold succeeds, at the limit it is refused with LimitExceeded; no
\* portfolio ever exceeds the limit
C3_HoldingBound ==
    /\ \A u \in Users : \A k \in 1..Len(store[u].portfolios) :
       \A s \in RawSymbols :
          LET holdings == store[u].portfolios[k].holdings
              r == add_holding_endpoint(store, u, store[u].portfolios[k].id,
                                        s, 1, 1, uuids + 1)
          IN (/\ AddHoldingRequest(s, 1, 1).ok
              /\ ~Holds(holdings, AddHoldingRequest(s, 1, 1).symbol)) =>
                IF Len(holdings) < MAX_HOLDINGS_PER_PORTFOLIO
                THEN /\ r.status = 201
                     /\ Len(r.container[u].portfolios[k].holdings)
                           = Len(holdings) + 1
                ELSE /\ r.status = 400
                     /\ r.detail = "Holdings limit reached"
                     /\ r.container = store
    /\ \A u \in Users : \A k \in 1..Len(store[u].portfolios) :
          Len(store[u].portfolios[k].holdings) <= MAX_HOLDINGS_PER_PORTFOLIO

\* C3: an add of a symbol not already present succeeds while the watchlist is
\* below MAX_WATCHLIST_ITEMS and fails with LimitExceeded at the limit, the
\* same holds for add-holding and MAX_HOLDINGS_PER_PORTFOLIO, and no stored
\* watchlist or portfolio exceeds its limit.
C3_BoundEnforcement ==
    /\ C3_WatchlistStored
    /\ (FreshAdd /\ Len(prev[last.user].watchlists) < MAX_WATCHLIST_ITEMS)
          => last.status = 201
    /\ C3_HoldingBound

\* a reorder by a registered user has been served
Reordered == last.op = "reorder_watchlist" /\ last.user \in Users

IncompleteOrder(response) ==
    response.status = 400 /\ response.detail = "Must include all symbols"

\* C4 as stated: a reorder fails with IncompleteOrder if and only if the set
\* of symbols of S differs from the set of symbols of the watchlist.
C4_SetDifference ==
    Reordered =>
        (IncompleteOrder(last)
            <=> Range(last.order) # Symbols(prev[last.user].watchlists))

\* C4: a reorder fails with IncompleteOrder if and only if S is a non-empty
\* duplicate-free list of watchlist symbols that leaves at least one watchlist
\* symbol out; an accepted S that lists a symbol absent from the watchlist
\* fails with InvalidSymbol whatever its length, and an empty or duplicated S
\* with InvalidInput.
C4_ReorderTotality ==
    Reordered =>
        LET S == last.order
            current == Symbols(prev[last.user].watchlists)
        IN /\ IncompleteOrder(last)
                 <=> /\ WatchlistReorderRequest(S)
                     /\ Range(S) \subseteq current
                     /\ Range(S) # current
           /\ (WatchlistReorderRequest(S) /\ ~(Range(S) \subseteq current))
                 => /\ last.status = 400
                    /\ last.detail = "Symbol not found in watchlist"
           /\ ~WatchlistReorderRequest(S) => last.status = 422

\* one of two stored symbols was listed alone
C4_Witness ==
    /\ Reordered
    /\ IncompleteOrder(last)
    /\ Len(last.order) = 1
    /\ Len(prev[last.user].watchlists) = 2
    /\ last.order[1] \in Symbols(prev[last.user].watchlists)

\* a reorder that passed the request model and both checks of the handler
AcceptedReorder ==
    /\ Reordered
    /\ WatchlistReorderRequest(last.order)
    /\ ReorderRejection(prev[last.user].watchlists, last.order) = ""

\* what reorder_watchlist stores: display_order i for the entry of S[i]
\* (0-based), and nothing else of the watchlist changes
C5_Stored ==
    AcceptedReorder =>
        LET S == last.order
            old == prev[last.user].watchlists
            new == store[last.user].watchlists
        IN /\ Len(new) = Len(old)
           /\ \A i \in 1..Len(S) : \E j \in 1..Len(new) :
                 /\ new[j].symbol = S[i]
                 /\ new[j].display_order = i - 1
                 /\ new[j] = [old[j] EXCEPT !.display_order = i - 1]

\* C5: a successful reorder stores display_order = i for the entry whose
\* symbol is S[i] and returns the entries in exactly the order of S.
C5_ReorderResult ==
    /\ C5_Stored
    /\ AcceptedReorder =>
          /\ last.status = 200
          /\ [i \in 1..Len(last.body) |-> last.body[i].symbol] = last.order

\* C6: a remove of the entry at display_order k deletes exactly that entry,
\* lowers by one the display_order of every entry that was above k and
\* leaves every entry below k as it was.
C6_Compaction ==
    (last.op = "remove_from_watchlist" /\ last.status = 204) =>
        LET old == prev[last.user].watchlists
            new == store[last.user].watchlists
            symbol == upper(last.symbol)
            k == (CHOOSE i \in 1..Len(old) : old[i].symbol = symbol)
        IN /\ Len(new) = Len(old) - 1
           /\ symbol \notin Symbols(new)
           /\ \A i \in 1..Len(old) : old[i].symbol # symbol =>
                 \E j \in 1..Len(new) :
                     new[j] = IF old[i].display_order > old[k].display_order
                              THEN [old[i] EXCEPT !.display_order = @ - 1]
                              ELSE old[i]

\* the entry at order 0 went, the entry at order 1 is now at order 0
C6_Witness ==
    /\ last.op = "remove_from_watchlist"
    /\ last.status = 204
    /\ \E i, j \in 1..Len(prev[last.user].watchlists) :
          /\ prev[last.user].watchlists[i].symbol = upper(last.symbol)
          /\ prev[last.user].watchlists[i].display_order = 0
          /\ prev[last.user].watchlists[j].display_order = 1
          /\ store[last.user].watchlists
                = <<[prev[last.user].watchlists[j]
                        EXCEPT !.display_order = 0]>>

\* the ids of the holdings a user's portfolios store
HoldingIds(document) ==
    UNION {{document.portfolios[k].holdings[i].id :
               i \in 1..Len(document.portfolios[k].holdings)} :
           k \in 1..Len(document.portfolios)}

\* an id uuid4() never produced
NobodyHoldingId == 0

\* a response that is the one given for nobody's id, a NotFound that wrote
\* nothing unless the request model refused the body first
LikeNobody(container, r, nobody) ==
    /\ r = nobody
    /\ r.status \in {404, 422}
    /\ r.container = container

\* C7: a summary, add-holding, update-holding or remove-holding request by
\* user A that names a portfolio or a holding of another user B is answered
\* exactly as the same request naming nobody's id: NotFound, nothing written.
C7_OwnershipIsolation ==
    /\ (/\ last.op \in {"get_portfolio_summary", "add_holding",
                        "update_holding", "delete_holding"}
        /\ last.user \in Users
        /\ \E B \in Users \ {last.user} :
              \E k \in 1..Len(prev[B].portfolios) :
                  prev[B].portfolios[k].id = last.pid)
       => /\ last.status \in {404, 422}
          /\ last.status = 404 => last.detail = "Portfolio not found"
          /\ last.body = <<>>
          /\ store = prev
    /\ \A A \in Users : \A B \in Users \ {A} :
       \A k \in 1..Len(store[B].portfolios) :
          LET foreign == store[B].portfolios[k].id IN
          /\ \A quotes \in QuoteInputs("u1") :
             LET r == get_portfolio_summary(store, A, foreign, quotes)
             IN /\ r.status = 404
                /\ LikeNobody(store, r,
                      get_portfolio_summary(store, A, GhostPortfolioId,
                                            quotes))
          /\ \A s \in {<<"A">>, <<"B">>} : \A amount \in AddAmountInputs :
                LikeNobody(store,
                    add_holding_endpoint(store, A, foreign, s, amount[1],
                                         amount[2], uuids + 1),
                    add_holding_endpoint(store, A, GhostPortfolioId, s,
                                         amount[1], amount[2], uuids + 1))
          /\ \A h \in HoldingIds(store[B]) \cup {NobodyHoldingId} :
                /\ \A amount \in UpdateAmountInputs("u1") :
                      LikeNobody(store,
                          update_holding_endpoint(store, A, foreign, h,
                              amount[1], amount[2], None),
                          update_holding_endpoint(store, A, GhostPortfolioId,
                              h, amount[1], amount[2], None))
                /\ LET r == delete_holding(store, A, foreign, h)
                   IN /\ r.status = 404
                      /\ LikeNobody(store, r,
                            delete_holding(store, A, GhostPortfolioId, h))
    /\ \A A \in Users : \A B \in Users \ {A} :
       \A k \in 1..Len(store[A].portfolios) :
       \A h \in HoldingIds(store[B]) :
          LET own == store[A].portfolios[k].id IN
          /\ \A amount \in UpdateAmountInputs("u1") :
                LikeNobody(store,
                    update_holding_endpoint(store, A, own, h, amount[1],
                                            amount[2], None),
                    update_holding_endpoint(store, A, own, NobodyHoldingId,
                                            amount[1], amount[2], None))
          /\ LET r == delete_holding(store, A, own, h)
             IN /\ r.status = 404
                /\ LikeNobody(store, r,
                      delete_holding(store, A, own, NobodyHoldingId))

\* the first user asked to update the second user's holding in the second
\* user's portfolio, and was told the portfolio does not exist
C7_Witness ==
    /\ last.op = "update_holding"
    /\ last.user = "u1"
    /\ last.pid = PortfolioId("u2", 1)
    /\ last.hid \in HoldingIds(store["u2"])
    /\ last.status = 404
    /\ last.detail = "Portfolio not found"
    /\ store = prev

\* the ids of every stored portfolio, and nobody's
AnyPortfolioIds ==
    {store[u].portfolios[k].id :
        u \in Users, k \in 1..Len(PORTFOLIO_NAMES)} \cup {GhostPortfolioId}

\* what the watchlist endpoints answer to user_id in the current store, for
\* every request of the input sets
WatchlistResponses(user_id) ==
    {add_to_watchlist_endpoint(store, user_id, s, n) :
        s \in RawSymbols, n \in {None, Some("n")}}
    \cup {reorder_watchlist_endpoint(store, user_id, S) :
             S \in OrderInputs("u1")}
    \cup {update_watchlist_item(store, user_id, s, n) :
             s \in RawSymbols, n \in {None, Some("n")}}
    \cup {remove_from_watchlist(store, user_id, s) : s \in RawSymbols}

\* what the holding endpoints answer to user_id in the current store
HoldingResponses(user_id) ==
    UNION {
        {add_holding_endpoint(store, user_id, pid, s, amount[1], amount[2],
                              uuids + 1) :
            s \in HoldingSymbolInputs("u1"), amount \in AddAmountInputs}
        \cup {update_holding_endpoint(store, user_id, pid, h, amount[1],
                                      amount[2], None) :
                 h \in 0..MaxHoldingIds, amount \in UpdateAmountInputs("u1")}
        \cup {delete_holding(store, user_id, pid, h) : h \in 0..MaxHoldingIds}
        : pid \in AnyPortfolioIds}

\* C8: a request of user A (watchlist add, remove, reorder, update notes;
\* holding add, update, remove) leaves the stored document of every other
\* user as it was, and a user's watchlist holds only symbols that user added.
C8_Frame ==
    /\ \A B \in Users : B # last.user => store[B] = prev[B]
    /\ \A A \in UserIds : \A B \in Users \ {A} :
       \A r \in WatchlistResponses(A) \cup HoldingResponses(A) :
          /\ DOMAIN r.container = DOMAIN store
          /\ r.container[B] = store[B]
    /\ \A B \in Users :
          Symbols(store[B].watchlists)
             \subseteq {WatchlistAddRequest(s).symbol : s \in RequestSymbols(B)}

\* the first user's add was stored next to the second user's watchlist
C8_Witness ==
    /\ last.op = "add_to_watchlist"
    /\ last.user = "u1"
    /\ Len(store["u1"].watchlists) = Len(prev["u1"].watchlists) + 1
    /\ store["u2"].watchlists # <<>>
    /\ store["u2"] = prev["u2"]

\* a response that reports one of the invariant violations: 400 for
\* DuplicateSymbol, LimitExceeded, IncompleteOrder and InvalidSymbol, 404 for
\* NotFound, 422 for InvalidInput
Refused(response) == response.status \in {400, 404, 422}

\* C9: a mutation that fails with DuplicateSymbol, LimitExceeded,
\* InvalidInput, IncompleteOrder or NotFound leaves the stored aggregates
\* exactly as they were before the call.
C9_FailureWritesNothing ==
    /\ Refused(last) => store = prev
    /\ \A A \in UserIds :
       \A r \in WatchlistResponses(A) \cup HoldingResponses(A) :
          Refused(r) => r.container = store

\* an add to a full watchlist was refused and nothing was written
C9_Witness ==
    /\ last.op = "add_to_watchlist"
    /\ last.status = 400
    /\ last.detail = "Watchlist limit reached"
    /\ Len(prev[last.user].watchlists) = MAX_WATCHLIST_ITEMS
    /\ store = prev

\* C10: in every reachable state every stored holding has quantity > 0 and
\* avg_price > 0.
C10_PositiveHoldings ==
    \A u \in Users : \A k \in 1..Len(store[u].portfolios) :
    \A i \in 1..Len(store[u].portfolios[k].holdings) :
        LET holding == store[u].portfolios[k].holdings[i] IN
        /\ holding.quantity # None
        /\ holding.quantity[1] > 0
        /\ holding.avg_price # None
        /\ holding.avg_price[1] > 0

\* what add_holding and delete_holding keep: a holding as add_holding stored
\* it has quantity > 0 and avg_price > 0, and a successful update that
\* supplies both fields stores both
C10_AddedPositive ==
    (/\ last.op = "add_holding"
     /\ last.status = 201) =>
        LET holdings == store[last.user]
                           .portfolios[FindPortfolio(
                               store[last.user].portfolios, last.pid)].holdings
            holding == holdings[Len(holdings)]
        IN /\ holding.quantity # None /\ holding.quantity[1] > 0
           /\ holding.avg_price # None /\ holding.avg_price[1] > 0

\* holding.get("notes"): None when the stored holding has no such key
HoldingNotes(holding) ==
    IF "notes" \in DOMAIN holding THEN holding.notes ELSE None

\* the holdings of the portfolio portfolio_id in a user document
HoldingsOf(document, portfolio_id) ==
    document.portfolios[FindPortfolio(document.portfolios, portfolio_id)]
        .holdings

\* an update request of a registered user for a holding that user's
\* portfolio stored has been served
UpdatedOwnHolding ==
    /\ last.op = "update_holding"
    /\ last.user \in Users
    /\ FindPortfolio(prev[last.user].portfolios, last.pid) # 0
    /\ FindHolding(HoldingsOf(prev[last.user], last.pid), last.hid) # 0

\* C11: an update of a holding that supplies none of quantity, avg_price and
\* notes is refused (NoFieldsProvided, a client error) and writes nothing.
C11_NoFieldsProvided ==
    (/\ UpdatedOwnHolding
     /\ last.quantity = None
     /\ last.avg_price = None
     /\ last.notes = None)
    => /\ last.status \in {400, 422}
       /\ store = prev

\* what a successful update_holding stores: the quantity and avg_price of the
\* request, both supplied, in the targeted holding; its id, symbol and
\* purchase date, every other holding, every portfolio and every other user
\* are as before
C12_Stored ==
    (UpdatedOwnHolding /\ last.status = 200) =>
        LET u == last.user
            k == FindPortfolio(prev[u].portfolios, last.pid)
            i == FindHolding(HoldingsOf(prev[u], last.pid), last.hid)
            old == prev[u].portfolios[k].holdings[i]
        IN /\ last.quantity # None
           /\ last.avg_price # None
           /\ store = [prev EXCEPT ![u].portfolios[k].holdings[i] =
                          [old EXCEPT !.quantity = last.quantity,
                                      !.avg_price = last.avg_price]]

\* C12: a successful update sets exactly the supplied fields (quantity,
\* avg_price, notes) of the targeted holding to the supplied values; a field
\* that was not supplied keeps its stored value, id and symbol are unchanged
\* and so is every other holding.
C12_ExactlySupplied ==
    (UpdatedOwnHolding /\ last.status = 200) =>
        LET u == last.user
            k == FindPortfolio(prev[u].portfolios, last.pid)
            i == FindHolding(HoldingsOf(prev[u], last.pid), last.hid)
            old == prev[u].portfolios[k].holdings[i]
            new == store[u].portfolios[k].holdings[i]
        IN /\ new.quantity = IF last.quantity # None THEN last.quantity
                             ELSE old.quantity
           /\ new.avg_price = IF last.avg_price # None THEN last.avg_price
                              ELSE old.avg_price
           /\ HoldingNotes(new) = IF last.notes # None THEN last.notes
                                  ELSE HoldingNotes(old)
           /\ new.id = old.id
           /\ new.symbol = old.symbol
           /\ \A v \in Users : \A p \in 1..Len(store[v].portfolios) :
              \A h \in 1..Len(store[v].portfolios[p].holdings) :
                  <<v, p, h>> # <<u, k, i>> =>
                      store[v].portfolios[p].holdings[h]
                          = prev[v].portfolios[p].holdings[h]

\* C13: an add-holding request that carries notes stores them on the new
\* holding and returns them, and a later summary of the portfolio shows them.
C13_NotesKept ==
    (/\ last.op = "add_holding"
     /\ last.status = 201
     /\ last.notes # None)
    => LET holdings == HoldingsOf(store[last.user], last.pid)
           read == get_portfolio_summary(store, last.user, last.pid,
                                         NoQuotes)
       IN /\ HoldingNotes(holdings[Len(holdings)]) = last.notes
          /\ last.body[1].notes = last.notes
          /\ read.status = 200
          /\ read.body.holdings[Len(read.body.holdings)].notes = last.notes

\* what add_holding keeps of a request with notes: symbol, quantity and
\* avg_price, under a new id, at the end of the portfolio's holdings
C13_Stored ==
    (/\ last.op = "add_holding"
     /\ last.status = 201
     /\ last.notes # None)
    => LET holdings == HoldingsOf(store[last.user], last.pid)
           new == holdings[Len(holdings)]
       IN /\ new.symbol = AddHoldingRequest(last.symbol, 1, 1).symbol
          /\ new.id = uuids
          /\ new.quantity = last.body[1].quantity
          /\ new.avg_price = last.body[1].avg_price
          /\ SubSeq(holdings, 1, Len(holdings) - 1)
                = HoldingsOf(prev[last.user], last.pid)

\* the portfolios of a document are the three that registration created
AsRegistered(document) ==
    /\ Len(document.portfolios) = 3
    /\ \A k \in 1..Len(document.portfolios) :
          /\ document.portfolios[k].id = UserDocument(document.id).portfolios[k].id
          /\ document.portfolios[k].name = PORTFOLIO_NAMES[k]
    /\ Cardinality({document.portfolios[k].name :
                       k \in 1..Len(document.portfolios)}) = 3

\* C14: every user document has exactly three portfolios, those created at
\* registration with the three fixed names; their count, ids and names are
\* the same in every state that watchlist and holding requests reach.
C14_ThreePortfolios ==
    /\ \A u \in Users : AsRegistered(store[u])
    /\ \A A \in UserIds : \A r \in WatchlistResponses(A) :
       \A u \in Users : AsRegistered(r.container[u])

\* a portfolio has just lost its only holding and is still there
C14_Witness ==
    /\ last.op = "delete_holding"
    /\ last.status = 204
    /\ HoldingsOf(prev[last.user], last.pid) # <<>>
    /\ HoldingsOf(store[last.user], last.pid) = <<>>
    /\ Len(store[last.user].portfolios) = 3

\* the summaries the first user can be given of the portfolio portfolio_id in
\* the current store, one per quote input
ValuedPortfolios == {PortfolioId("u1", k) : k \in 1..Len(PORTFOLIO_NAMES)}

Summary(portfolio_id, quotes) ==
    get_portfolio_summary(store, "u1", portfolio_id, quotes)

\* the figures of one holding are those of its quantity, avg_price and price
ValuedAt(response, holding, price) ==
    /\ response.cost_basis = holding.quantity[1] * holding.avg_price[1]
    /\ response.current_value = holding.quantity[1] * price
    /\ response.profit_loss = response.current_value - response.cost_basis

\* the figures of one holding are the break-even ones
BreakEven(response, holding) ==
    /\ response.cost_basis = holding.quantity[1] * holding.avg_price[1]
    /\ response.current_value = response.cost_basis
    /\ response.profit_loss = 0
    /\ response.return_rate = 0

\* C15 as stated: every holding whose symbol has an available quote is
\* reported with cost_basis = quantity x avg_price, current_value = quantity
\* x quote price and profit_loss = current_value - cost_basis.
C15_AnyQuote ==
    \A pid \in ValuedPortfolios : \A quotes \in QuoteInputs("u1") :
        LET r == Summary(pid, quotes)
            holdings == HoldingsOf(store["u1"], pid)
        IN r.status = 200 =>
              \A i \in 1..Len(holdings) :
                  get_quote(quotes, holdings[i].symbol) # None =>
                      ValuedAt(r.body.holdings[i], holdings[i],
                               get_quote(quotes, holdings[i].symbol)[1])

\* C15: every holding whose symbol has a quote with a price other than 0 is
\* reported with cost_basis = quantity x avg_price, current_value = quantity
\* x quote price and profit_loss = current_value - cost_basis (1755.00,
\* 1800.00 and 45.00 for 10 at 175.50 quoted 180.00); a quote whose price is
\* 0 is treated as no quote and the holding is reported at break-even.
C15_PricedQuote ==
    \A pid \in ValuedPortfolios : \A quotes \in QuoteInputs("u1") :
        LET r == Summary(pid, quotes)
            holdings == HoldingsOf(store["u1"], pid)
        IN r.status = 200 =>
              \A i \in 1..Len(holdings) :
                  LET quote == get_quote(quotes, holdings[i].symbol) IN
                  /\ (quote # None /\ quote[1] # 0) =>
                        /\ ValuedAt(r.body.holdings[i], holdings[i], quote[1])
                        /\ r.body.holdings[i].current_price = quote
                  /\ (quote # None /\ quote[1] = 0) =>
                        BreakEven(r.body.holdings[i], holdings[i])
                  /\ (/\ holdings[i].quantity = Some(10)
                      /\ holdings[i].avg_price = Some(17550)
                      /\ quote = Some(18000)) =>
                        /\ r.body.holdings[i].cost_basis = 175500
                        /\ r.body.holdings[i].current_value = 180000
                        /\ r.body.holdings[i].profit_loss = 4500

\* the summary just served values 10 at 175.50 quoted 180.00
C15_Witness ==
    /\ last.op = "get_portfolio_summary"
    /\ last.status = 200
    /\ \E i \in 1..Len(last.body.holdings) :
          /\ last.body.holdings[i].quantity = 10
          /\ last.body.holdings[i].avg_price = 17550
          /\ last.body.holdings[i].current_price = Some(18000)
          /\ last.body.holdings[i].cost_basis = 175500
          /\ last.body.holdings[i].current_value = 180000
          /\ last.body.holdings[i].profit_loss = 4500

\* C16: a holding whose symbol has no quote is reported with current_value =
\* cost_basis, profit_loss = 0 and return_rate = 0, and a holding is reported
\* with a profit or loss other than 0 only when a price was obtained for it.
C16_Degradation ==
    \A pid \in ValuedPortfolios : \A quotes \in QuoteInputs("u1") :
        LET r == Summary(pid, quotes)
            holdings == HoldingsOf(store["u1"], pid)
        IN r.status = 200 =>
              \A i \in 1..Len(holdings) :
                  LET quote == get_quote(quotes, holdings[i].symbol) IN
                  /\ quote = None =>
                        /\ BreakEven(r.body.holdings[i], holdings[i])
                        /\ r.body.holdings[i].current_price = None
                  /\ (\/ r.body.holdings[i].profit_loss # 0
                      \/ r.body.holdings[i].return_rate # 0) =>
                        /\ quote # None
                        /\ r.body.holdings[i].current_price = quote

\* the summary just served holds a priced holding and one at break-even
C16_Witness ==
    /\ last.op = "get_portfolio_summary"
    /\ last.status = 200
    /\ \E i, j \in 1..Len(last.body.holdings) :
          /\ last.body.holdings[i].current_price = Some(3)
          /\ last.body.holdings[i].profit_loss # 0
          /\ last.body.holdings[j].current_price = None
          /\ last.body.holdings[j].current_value
                = last.body.holdings[j].cost_basis
          /\ last.body.holdings[j].cost_basis > 0
          /\ last.body.holdings[j].profit_loss = 0
          /\ last.body.holdings[j].return_rate = 0

Abs(x) == IF x < 0 THEN -x ELSE x

\* rate is numerator / denominator x 100 as far as a quotient kept to
\* RateScale-ths tells, 0 when the denominator is 0
IsRateOf(rate, numerator, denominator) ==
    IF denominator = 0 THEN rate = 0
    ELSE /\ rate % 100 = 0
         /\ 2 * Abs((rate \div 100) * denominator - numerator * RateScale)
               <= denominator

\* C17: the totals of a summary are the sums of the holdings' cost_basis and
\* current_value, total_profit_loss is their difference and the sum of the
\* holdings' profit_loss, total_return_rate is total_profit_loss /
\* total_cost_basis x 100, 0 when total_cost_basis is 0, and an empty
\* portfolio yields 0 for all of them.
C17_Totals ==
    \A pid \in ValuedPortfolios : \A quotes \in QuoteInputs("u1") :
        LET r == Summary(pid, quotes)
            holdings == HoldingsOf(store["u1"], pid)
            figures == r.body.holdings
            totals == r.body.summary
        IN r.status = 200 =>
              /\ Len(figures) = Len(holdings)
              /\ totals.total_holdings = Len(holdings)
              /\ totals.total_cost_basis
                    = Sum([i \in 1..Len(figures) |-> figures[i].cost_basis])
              /\ totals.total_current_value
                    = Sum([i \in 1..Len(figures) |-> figures[i].current_value])
              /\ totals.total_profit_loss
                    = totals.total_current_value - totals.total_cost_basis
              /\ totals.total_profit_loss
                    = Sum([i \in 1..Len(figures) |-> figures[i].profit_loss])
              /\ IsRateOf(totals.total_return_rate, totals.total_profit_loss,
                          totals.total_cost_basis)
              /\ holdings = <<>> =>
                    /\ totals.total_cost_basis = 0
                    /\ totals.total_current_value = 0
                    /\ totals.total_profit_loss = 0
                    /\ totals.total_return_rate = 0

\* the summary just served totals two holdings, one of them at a gain or loss
C17_Witness ==
    /\ last.op = "get_portfolio_summary"
    /\ last.status = 200
    /\ last.body.summary.total_holdings = 2
    /\ last.body.holdings[1].profit_loss # 0
    /\ last.body.holdings[2].profit_loss = 0
    /\ last.body.summary.total_profit_loss = last.body.holdings[1].profit_loss
    /\ last.body.summary.total_return_rate # 0

\* symbol.endswith(('.KS', '.KQ')): the market suffix of the alternate area
endswith(symbol, suffix) ==
    /\ Len(symbol) >= Len(suffix)
    /\ SubSeq(symbol, Len(symbol) - Len(suffix) + 1, Len(symbol)) = suffix

AlternateArea(symbol) ==
    \/ endswith(symbol, <<".", "K", "S">>)
    \/ endswith(symbol, <<".", "K", "Q">>)

\* the figures of the holdings of one area
AreaFigures(figures, alternate) ==
    SelectSeq(figures, LAMBDA figure : AlternateArea(figure.symbol) = alternate)

\* C18: the summary reports cost basis, current value, profit/loss and
\* return rate for the default area and for the alternate area (symbols
\* with a market suffix such as .KS or .KQ), each computed from that area's
\* holdings only, so that the two areas' cost bases and current values add
\* up to the totals.
C18_Areas ==
    \A pid \in ValuedPortfolios : \A quotes \in QuoteInputs("u1") :
        LET r == Summary(pid, quotes)
            totals == r.body.summary
            usd == AreaFigures(r.body.holdings, FALSE)
            krw == AreaFigures(r.body.holdings, TRUE)
            cost(figures) ==
                Sum([i \in 1..Len(figures) |-> figures[i].cost_basis])
            value(figures) ==
                Sum([i \in 1..Len(figures) |-> figures[i].current_value])
        IN r.status = 200 =>
              /\ totals.usd_cost_basis = cost(usd)
              /\ totals.usd_current_value = value(usd)
              /\ totals.usd_profit_loss = value(usd) - cost(usd)
              /\ IsRateOf(totals.usd_return_rate, value(usd) - cost(usd),
                          cost(usd))
              /\ totals.krw_cost_basis = cost(krw)
              /\ totals.krw_current_value = value(krw)
              /\ totals.krw_profit_loss = value(krw) - cost(krw)
              /\ IsRateOf(totals.krw_return_rate, value(krw) - cost(krw),
                          cost(krw))
              /\ totals.usd_cost_basis + totals.krw_cost_basis
                    = totals.total_cost_basis
              /\ totals.usd_current_value + totals.krw_current_value
                    = totals.total_current_value

\* the last request was a quote retrieval, by either path
QuoteRetrieved == last.op \in {"get_stock_quote", "get_stock_info"}

\* the last retrieval came within the TTL of a successful fetch of its symbol
WithinWindow ==
    /\ last.fetched # None
    /\ last.at - last.fetched[1] <= STOCK_CACHE_TTL_SECONDS

\* C19: a quote retrieval made within the TTL window after a successful
\* fetch of its symbol causes no external fetch, and a retrieval made with no
\* such fetch or after the window has expired causes one, on every path
\* that obtains a quote (the quote endpoint and the helper of the watchlist
\* and portfolio reads).
C19_OneFetchPerWindow ==
    QuoteRetrieved => (last.fetches = 0 <=> WithinWindow)

\* What the quote endpoint alone does: it fetches exactly when the table
\* holds no entry of the symbol updated within the TTL, and otherwise answers
\* with the cached quote.
C19_QuoteEndpoint ==
    last.op = "get_stock_quote" =>
        LET hit == /\ last.entry # None
                   /\ last.at - last.entry[1].updated_at
                         <= STOCK_CACHE_TTL_SECONDS
        IN /\ last.fetches = (IF hit THEN 0 ELSE 1)
           /\ hit => /\ last.status = 200
                     /\ last.body.current_price = last.entry[1].current_price
                     /\ last.body.updated_at = last.entry[1].updated_at

\* the last retrieval asked the provider and got no quote
FetchFailed == QuoteRetrieved /\ last.fetches = 1 /\ last.answer = None

\* the price the last retrieval answered with, None when it answered with none
AnsweredPrice ==
    IF last.status # 200 THEN None
    ELSE IF last.op = "get_stock_info" THEN last.body.current_price
    ELSE Some(last.body.current_price)

\* C20: when the external fetch fails and an entry of the symbol from a
\* prior successful fetch exists, stale or not, the retrieval answers with
\* that entry's quote and no error; when the fetch fails and no entry
\* exists, the retrieval fails (404) and the table holds no entry of the
\* symbol.
C20_Fallback ==
    FetchFailed =>
        IF last.entry # None
        THEN /\ last.status = 200
             /\ AnsweredPrice = Some(last.entry[1].current_price)
        ELSE /\ last.status = 404
             /\ last.symbol \notin DOMAIN stock_quotes

\* What the quote endpoint does when the fetch fails: it answers 404 whether
\* or not an entry exists, and leaves the table as it was.
C20_QuoteEndpoint ==
    (FetchFailed /\ last.op = "get_stock_quote") =>
        /\ last.status = 404
        /\ Existing(stock_quotes, last.symbol) = last.entry

\* a failed fetch of the quote endpoint with a stale entry in the table
C20_StaleEntry ==
    /\ FetchFailed
    /\ last.op = "get_stock_quote"
    /\ last.entry # None

\* symbol_to_info: asyncio.gather of get_stock_info over the symbols of the
\* holdings, zipped with the symbols
symbol_to_info(quotes, symbols) ==
    [symbol \in Range(symbols) |-> get_stock_info(quotes, symbol)]

\* C21: the fan-out quote retrieval of a portfolio read never fails as a
\* whole: it yields an entry for every symbol asked, the entry of a symbol
\* whose fetch succeeded carries its quote and only the entries of the failed
\* symbols lack one, and whether the read succeeds does not depend on which
\* fetches failed.
C21_PartialTolerance ==
    \A pid \in ValuedPortfolios : \A quotes \in QuoteInputs("u1") :
        LET r == Summary(pid, quotes)
            holdings == HoldingsOf(store["u1"], pid)
            symbols == ListOf([i \in 1..Len(holdings) |-> holdings[i].symbol])
            infos == symbol_to_info(quotes, symbols)
        IN /\ DOMAIN infos = Range(symbols)
           /\ \A symbol \in Range(symbols) :
                 infos[symbol].current_price = get_quote(quotes, symbol)
           /\ r.status = Summary(pid, NoQuotes).status
           /\ r.status = 200 =>
                 /\ Len(r.body.holdings) = Len(holdings)
                 /\ \A i \in 1..Len(holdings) :
                       LET quote == get_quote(quotes, holdings[i].symbol) IN
                       /\ r.body.holdings[i].symbol = holdings[i].symbol
                       /\ Truthy(quote) =>
                             r.body.holdings[i].current_price = quote
                       /\ quote = None =>
                             r.body.holdings[i].current_price = None

\* the summary just served holds A, whose fetch succeeded, with its price and
\* B.KS, whose fetch failed, without one
C21_Witness ==
    /\ last.op = "get_portfolio_summary"
    /\ last.status = 200
    /\ Len(last.body.holdings) = 2
    /\ \E i, j \in 1..2 :
          /\ last.body.holdings[i].symbol = <<"A">>
          /\ last.body.holdings[i].current_price = Some(3)
          /\ last.body.holdings[j].symbol = <<"B", ".", "K", "S">>
          /\ last.body.holdings[j].current_price = None

\* C22: a summary read of a portfolio with holdings during which the quote
\* fetch fails for every symbol does not answer like an ordinary successful
\* read: the response model has no field for a signal, so the signal is a
\* status other than 200.
C22_DegradedSignal ==
    \A pid \in ValuedPortfolios :
        HoldingsOf(store["u1"], pid) # <<>> =>
            Summary(pid, NoQuotes).status # 200

\* What the reads do when every fetch fails: the summary answers 200 with
\* every holding unpriced, and the watchlist read answers with the status it
\* has when every fetch succeeds.
C22_OrdinaryResult ==
    /\ \A pid \in ValuedPortfolios :
          LET r == Summary(pid, NoQuotes) IN
          /\ r.status = 200
          /\ \A i \in 1..Len(r.body.holdings) :
                r.body.holdings[i].current_price = None
    /\ \A user_id \in UserIds :
          get_watchlist(store, user_id, NoQuotes).status
              = get_watchlist(store, user_id, AllAt(18000)).status

\* The write handlers ask get_stock_info only to fill the response; it
\* returns the same keys whatever the provider answers and never raises, so
\* what a write does is the same under every answer of the provider.
\* the last request was a write of the watchlist that its checks accept
AcceptedWatchlistWrite ==
    \/ FreshAdd /\ Len(prev[last.user].watchlists) < MAX_WATCHLIST_ITEMS
    \/ AcceptedReorder
    \/ /\ last.op \in {"update_watchlist_item", "remove_from_watchlist"}
       /\ last.user \in Users
       /\ Holds(prev[last.user].watchlists, upper(last.symbol))

\* C23: a write that its checks accept (watchlist add, reorder, update
\* notes, remove) succeeds and its change is stored, whether or not any quote
\* can be fetched.
C23_WritesSucceed ==
    AcceptedWatchlistWrite =>
        /\ last.status \in {200, 201, 204}
        /\ last.op \in {"add_to_watchlist", "remove_from_watchlist"} =>
              store # prev

\* What holds of the holding writes, which answer after valuing the holding
\* with whatever get_stock_info returned: an update and a remove of a stored
\* holding succeed and are stored.
C23_HoldingWrites ==
    \A u \in Users : \A k \in 1..Len(store[u].portfolios) :
    \A i \in 1..Len(store[u].portfolios[k].holdings) :
        LET pid == store[u].portfolios[k].id
            holding == store[u].portfolios[k].holdings[i]
            updated == update_holding_endpoint(store, u, pid, holding.id,
                                               Some(2), Some(2), None)
            removed == delete_holding(store, u, pid, holding.id)
        IN /\ updated.status = 200
           /\ updated.container[u].portfolios[k].holdings[i].quantity = Some(2)
           /\ removed.status = 204
           /\ Len(removed.container[u].portfolios[k].holdings)
                 = Len(store[u].portfolios[k].holdings) - 1

\* the last call was get_top_movers
TopMoversCalled == last.op = "get_top_movers"

\* the call found cached data younger than the TTL
YoungCache ==
    /\ last.entry # None
    /\ last.fetched # None
    /\ last.at - last.fetched[1] < cache_ttl

\* C25 as stated: every call made while the cached data is younger than the
\* TTL returns the cached data without calling the external API, and a call
\* made once the TTL has elapsed calls the external API.
C25_CachedWithinTtl ==
    TopMoversCalled =>
        IF YoungCache
        THEN last.fetches = 0 /\ last.body = last.entry
        ELSE last.fetches = 1

\* C25: every call that does not force a refresh and is made while the
\* cached data is younger than the TTL returns the cached data without
\* calling the external API; a call made once the TTL has elapsed, or with
\* no cached data, or with force_refresh, calls the external API.
C25_CachedUnlessForced ==
    TopMoversCalled =>
        IF YoungCache /\ ~last.force_refresh
        THEN /\ last.fetches = 0
             /\ last.body = last.entry
             /\ top_movers_service._cache = last.entry
             /\ top_movers_service._cache_time = last.fetched
        ELSE last.fetches = 1

\* a call one second before the TTL elapses was answered from the cache
C25_Witness ==
    /\ TopMoversCalled
    /\ last.entry = Some("d1")
    /\ last.at - last.fetched[1] = cache_ttl - 1
    /\ last.fetches = 0
    /\ last.body = Some("d1")

\* the external API was called and failed
TopMoversFetchFailed ==
    TopMoversCalled /\ last.fetches = 1 /\ last.answer = None

\* C26: when the external fetch fails and previously fetched data exists,
\* the call returns that data and leaves it and its time unchanged; when no
\* data was ever fetched successfully, the call returns None.
C26_StaleFallback ==
    TopMoversFetchFailed =>
        /\ top_movers_service._cache = last.entry
        /\ top_movers_service._cache_time = last.fetched
        /\ last.body = last.entry
        /\ ~top_movers_service.ever_fetched => last.body = None

\* a failed fetch was answered with data older than the TTL
C26_Witness ==
    /\ TopMoversFetchFailed
    /\ ~last.force_refresh
    /\ last.entry = Some("d2")
    /\ last.at - last.fetched[1] >= cache_ttl
    /\ last.body = Some("d2")

\* a failed first fetch was answered with None
C26_NeverFetched ==
    /\ TopMoversFetchFailed
    /\ ~top_movers_service.ever_fetched
    /\ last.body = None

\* C29: a mutation reports success exactly when it replaced the stored
\* document: whenever the stored document has changed the response is a
\* success (no error follows a persisted change), and a successful add or
\* remove has changed the stored document.
C29_SuccessIffPersisted ==
    (/\ last.op \in {"add_to_watchlist", "reorder_watchlist",
                      "update_watchlist_item", "remove_from_watchlist"}
     /\ last.user \in Users) =>
        /\ store # prev => last.status \in {200, 201, 204}
        /\ (/\ last.status \in {200, 201, 204}
            /\ last.op \in {"add_to_watchlist", "remove_from_watchlist"})
              => store # prev

\* C27: when load and replace are separate atomic steps of each mutation,
\* under every interleaving every stored document has unique watchlist
\* symbols, display_order values 0..n-1, at most MAX_WATCHLIST_ITEMS
\* entries and, in every portfolio, unique holding symbols and at most
\* MAX_HOLDINGS_PER_PORTFOLIO holdings.
C27_StructuralInvariants ==
    \A u \in Users :
        /\ Cardinality(Symbols(store[u].watchlists))
              = Len(store[u].watchlists)
        /\ Dense(store[u].watchlists)
        /\ Len(store[u].watchlists) <= MAX_WATCHLIST_ITEMS
        /\ \A k \in 1..Len(store[u].portfolios) :
              /\ Cardinality(Symbols(store[u].portfolios[k].holdings))
                    = Len(store[u].portfolios[k].holdings)
              /\ Len(store[u].portfolios[k].holdings)
                    <= MAX_HOLDINGS_PER_PORTFOLIO

\* an add has just replaced a document that another mutation had replaced
\* after the add loaded it
C27_Witness ==
    /\ last.op = "add_to_watchlist"
    /\ last.stale
    /\ last.rival # None
    /\ last.rival[1].op = "add_to_watchlist"
    /\ store[last.user].watchlists # prev[last.user].watchlists

\* the last mutation replaced the document although another mutation, which
\* had loaded the same document, had replaced it in between
RacedReplace ==
    /\ last.rival # None
    /\ ReachesReplace(last, prev)

\* C28: when two mutations load the same stored document, both report
\* success and the stored document is the result of the one that replaced
\* last, computed from the document both loaded: the change of the other
\* is absent.
C28_LastWriterWins ==
    RacedReplace =>
        /\ last.status \in {200, 201, 204}
        /\ last.rival[1].status \in {200, 201, 204}
        /\ store[last.user] = Apply(last, prev, NoQuotes).container[last.user]

\* What holds of every pair: the replace is unconditional, the document of
\* the last replace is stored whole; and when both are adds of holdings,
\* both are answered 201.
C28_UnconditionalReplace ==
    RacedReplace =>
        /\ store[last.user] = Apply(last, prev, NoQuotes).container[last.user]
        /\ (last.op = "add_holding" /\ last.rival[1].op = "add_holding")
              => last.status = 201 /\ last.rival[1].status = 201

\* two holdings were added to the document both adds had loaded: the
\* portfolio holds the second only
C28_LostUpdate ==
    /\ RacedReplace
    /\ last.op = "add_holding"
    /\ last.rival[1].op = "add_holding"
    /\ last.rival[1].symbol # last.symbol
    /\ \E k \in 1..Len(store[last.user].portfolios) :
          /\ store[last.user].portfolios[k].id = last.pid
          /\ last.symbol \in Symbols(store[last.user].portfolios[k].holdings)
          /\ last.rival[1].symbol
                \notin Symbols(store[last.user].portfolios[k].holdings)

\* C30: within one event loop a mutation handler is never suspended between
\* its load and its replace: no mutation is ever under way while another
\* request runs, every mutation decides on the document that is stored when
\* it replaces, and so no change of another request is lost.
C30_NoInterleaving ==
    /\ \A p \in Slots :
          inflight[p] # None => inflight[p][1].op \in ReadOps
    /\ last.op \notin ReadOps \cup {"none"} =>
          /\ ~last.stale
          /\ last.rival = None
          /\ store = Apply(last, prev, NoQuotes).container

\* an add ran to its end while a read that had loaded the document before
\* was still awaiting its quotes
C30_Witness ==
    /\ last.op = "add_to_watchlist"
    /\ store # prev
    /\ \E p \in Slots :
          /\ inflight[p] # None
          /\ inflight[p][1].op = "get_watchlist"
          /\ inflight[p][2] = prev

\* the last request was a read of a registered user, resumed after its
\* fetches returned or timed out
ReadReturned ==
    /\ last.op \in ReadOps
    /\ last.user \in Users

\* the summary reports the holdings it loaded, a holding whose fetch timed
\* out without a price and at break-even, the others at their quote
SummaryValued ==
    LET holdings == HoldingsOf(prev[last.user], last.pid) IN
    /\ Len(last.body.holdings) = Len(holdings)
    /\ \A i \in 1..Len(holdings) :
          LET quote == get_quote(last.answer, holdings[i].symbol) IN
          /\ last.body.holdings[i].symbol = holdings[i].symbol
          /\ quote = None =>
                /\ last.body.holdings[i].current_price = None
                /\ BreakEven(last.body.holdings[i], holdings[i])
          /\ Truthy(quote) =>
                /\ last.body.holdings[i].current_price = quote
                /\ ValuedAt(last.body.holdings[i], holdings[i], quote[1])

\* C24: a watchlist read or a portfolio summary read whose fetches have
\* each returned or timed out returns without failing: it answers 200, the
\* entry of a symbol whose fetch timed out has no price (a holding is
\* valued at break-even) and the other entries carry their quote.
C24_ReadsReturn ==
    ReadReturned =>
        /\ last.status = 200
        /\ last.op = "get_portfolio_summary" => SummaryValued
        /\ last.op = "get_watchlist" =>
              /\ Len(last.body.items) = Len(prev[last.user].watchlists)
              /\ \A i \in 1..Len(last.body.items) :
                    last.body.items[i].current_price
                        = get_quote(last.answer, last.body.items[i].symbol)

\* What holds of the reads that returned: a summary read answers 200,
\* valued as C24 says; a watchlist read answers 200 only for an empty
\* watchlist.
C24_SummaryReturns ==
    (ReadReturned /\ last.op = "get_portfolio_summary") =>
        /\ last.status = 200
        /\ SummaryValued

C24_WatchlistFails ==
    (ReadReturned /\ last.op = "get_watchlist") =>
        IF prev[last.user].watchlists = <<>>
        THEN last.status = 200 /\ last.body.items = <<>>
        ELSE last.status = 500

\* a summary returned with A priced and B.KS, whose fetch timed out, at
\* break-even
C24_PartialSummary ==
    /\ ReadReturned
    /\ last.op = "get_portfolio_summary"
    /\ last.status = 200
    /\ \E i, j \in 1..Len(last.body.holdings) :
          /\ last.body.holdings[i].current_price = Some(3)
          /\ last.body.holdings[j].current_price = None

\* C31: a reorder by a registered user with a list S that the request model
\* accepts fails with InvalidSymbol (400 "Symbol ... not found in
\* watchlist") if any symbol of S is absent from the watchlist, and with
\* IncompleteOrder (400 "Must include all ... symbols") if every symbol of S
\* is present but the length of S differs from the number of entries; in
\* both cases nothing is merged: the stored document is unchanged.
C31_PartialReorderRejected ==
    (Reordered /\ WatchlistReorderRequest(last.order)) =>
        LET S == last.order
            current == Symbols(prev[last.user].watchlists)
        IN /\ ~(Range(S) \subseteq current) =>
                 /\ last.status = 400
                 /\ last.detail = "Symbol not found in watchlist"
                 /\ store = prev
           /\ (/\ Range(S) \subseteq current
               /\ Len(S) # Len(prev[last.user].watchlists)) =>
                 /\ IncompleteOrder(last)
                 /\ store = prev

\* the second of two stored symbols was listed alone and refused; the first is
\* still at display_order 0
C31_Witness ==
    /\ Reordered
    /\ IncompleteOrder(last)
    /\ Len(last.order) = 1
    /\ \E i, j \in 1..Len(store[last.user].watchlists) :
          /\ store[last.user].watchlists[i].symbol = last.order[1]
          /\ store[last.user].watchlists[i].display_order = 1
          /\ store[last.user].watchlists[j].display_order = 0

\* a list with an absent symbol was refused as InvalidSymbol
C31_InvalidSymbol ==
    /\ Reordered
    /\ WatchlistReorderRequest(last.order)
    /\ Len(last.order) = Len(prev[last.user].watchlists)
    /\ Len(last.order) = 2
    /\ last.detail = "Symbol not found in watchlist"

\* C32: in every reachable state a summary read of any portfolio of any
\* user returns a result (200), whatever the provider answers: no stored
\* holding makes it end in an internal error.
C32_SummaryNeverAborts ==
    \A u \in Users : \A k \in 1..Len(store[u].portfolios) :
    \A quotes \in {NoQuotes, AllAt(18000)} :
        get_portfolio_summary(store, u, store[u].portfolios[k].id,
                              quotes).status = 200

\* What holds: a summary read ends in an internal error exactly when the
\* portfolio stores a holding without a quantity or without an avg_price.
C32_AbortsOnMissingField ==
    \A u \in Users : \A k \in 1..Len(store[u].portfolios) :
        LET holdings == store[u].portfolios[k].holdings IN
        (get_portfolio_summary(store, u, store[u].portfolios[k].id,
                               NoQuotes).status = 500)
            <=> \E i \in 1..Len(holdings) :
                   \/ holdings[i].quantity = None
                   \/ holdings[i].avg_price = None

\* C33: quote requests for one symbol that overlap all succeed and return
\* the same quote, and afterwards the table holds the symbol with a quote
\* from a single fetch.
C33_ConcurrentQuotes ==
    (last.op = "get_stock_quote" /\ last.rival # None) =>
        /\ last.status = 200
        /\ last.rival[1].status = 200
        /\ last.body.current_price = last.rival[1].body.current_price
        /\ last.symbol \in DOMAIN stock_quotes
        /\ stock_quotes[last.symbol].current_price \in {1, 2}

\* What holds: whenever a request is answered 200 after a fetch, the table
\* holds the symbol with the whole quote of that fetch (the last writer
\* wins); a request is answered 500 only when its insert met the row of
\* another request.
C33_LastWriterWins ==
    (last.op = "get_stock_quote" /\ last.answer # None) =>
        IF last.status = 200
        THEN stock_quotes[last.symbol]
                = [current_price |-> last.answer[1], updated_at |-> last.at]
        ELSE /\ last.status = 500
             /\ last.rival # None
             /\ last.symbol \in DOMAIN stock_quotes

\* two overlapping requests both updated the stale row and were answered
\* with different prices
C33_DifferentQuotes ==
    /\ last.op = "get_stock_quote"
    /\ last.rival # None
    /\ last.status = 200
    /\ last.rival[1].status = 200
    /\ last.body.current_price # last.rival[1].body.current_price

\* the provider calls under way for the fan-out reads
FetchesInFlight == executor["watchlist"].running + executor["portfolios"].running

\* C34: the number of provider calls under way for fan-out reads never
\* exceeds the parallelism limit of 5, however many symbols the reads show
\* and however many watchlist and summary reads run at once.
C34_ParallelismLimit == FetchesInFlight <= max_workers

\* What holds: each executor runs at most max_workers calls, so a watchlist
\* read and a summary read running at once have up to twice as many under
\* way.
C34_LimitPerExecutor ==
    /\ \A pool \in Executors : executor[pool].running <= max_workers
    /\ FetchesInFlight <= 2 * max_workers

C34_BothPoolsBusy == FetchesInFlight = 2 * max_workers

InvalidOrders ==
    {<<>>, << <<"A">>, <<"A">> >>, << <<"A">>, <<"B">>, <<"A">> >>}

\* C36: a reorder request whose list is empty or repeats a symbol is
\* rejected as invalid input (422) before the document is loaded (for an
\* unknown user too) and nothing is written; so every reorder that gets past
\* the request model lists distinct symbols.
C36_InvalidReorderInput ==
    /\ (last.op = "reorder_watchlist" /\ last.order \in InvalidOrders) =>
          last.status = 422 /\ store = prev
    /\ \A A \in UserIds : \A order \in InvalidOrders :
          LET r == reorder_watchlist_endpoint(store, A, order)
          IN r.status = 422 /\ r.container = store
    /\ (last.op = "reorder_watchlist" /\ last.status # 422) =>
          Cardinality(Range(last.order)) = Len(last.order)

\* a list repeating the one stored symbol was refused as invalid input
C36_Witness ==
    /\ last.op = "reorder_watchlist"
    /\ last.order = << <<"A">>, <<"A">> >>
    /\ last.status = 422
    /\ Symbols(store[last.user].watchlists) = {<<"A">>}

\* C37: a quote request that finds a row of its symbol is served from it
\* without calling the provider exactly when now - updated_at < TTL; when
\* the age of the row equals or exceeds the TTL the provider is called.
C37_StrictTtl ==
    (last.op = "get_stock_quote" /\ last.entry # None) =>
        (last.fetches = 0
            <=> last.at - last.entry[1].updated_at < STOCK_CACHE_TTL_SECONDS)

\* What holds: the row is served while its age is at most the TTL, the
\* second at which the age equals the TTL included.
C37_InclusiveTtl ==
    (last.op = "get_stock_quote" /\ last.entry # None) =>
        (last.fetches = 0
            <=> last.at - last.entry[1].updated_at <= STOCK_CACHE_TTL_SECONDS)

\* a row exactly TTL seconds old was served without a call
C37_ServedAtTtl ==
    /\ last.op = "get_stock_quote"
    /\ last.entry # None
    /\ last.at - last.entry[1].updated_at = STOCK_CACHE_TTL_SECONDS
    /\ last.fetches = 0
    /\ last.status = 200

\* C38: a watchlist add that passes its checks appends: the new entry is the
\* last of the stored list, its display_order is the highest display_order
\* of the entries found plus one, which is their number (0 for an empty
\* watchlist), and every entry found is stored as it was.
C38_AddAppends ==
    (FreshAdd /\ Len(prev[last.user].watchlists) < MAX_WATCHLIST_ITEMS) =>
        LET old == prev[last.user].watchlists
            new == store[last.user].watchlists
            orders == {old[i].display_order : i \in 1..Len(old)}
        IN /\ Len(new) = Len(old) + 1
           /\ new[Len(new)].symbol = upper(strip(last.symbol))
           /\ new[Len(new)].display_order = MaxOf(orders, -1) + 1
           /\ new[Len(new)].display_order = Len(old)
           /\ \A i \in 1..Len(old) : new[i] = old[i]

\* B was added to a watchlist holding A with notes: A is stored as before at
\* display_order 0, B after it at display_order 1
C38_Witness ==
    /\ FreshAdd
    /\ last.symbol = <<"B">>
    /\ Len(prev[last.user].watchlists) = 1
    /\ prev[last.user].watchlists[1].notes = Some("n")
    /\ Len(store[last.user].watchlists) = 2
    /\ store[last.user].watchlists[1] = prev[last.user].watchlists[1]
    /\ store[last.user].watchlists[2].symbol = <<"B">>
    /\ store[last.user].watchlists[2].display_order = 1

\* C39: a remove of a holding by a registered user is answered NotFound
\* (404), and nothing is written, if the portfolio named does not store a
\* holding with that id; otherwise it is answered 204 and exactly that
\* holding is gone: the other holdings of the portfolio are stored as they
\* were and in their order, and so are the user's other portfolios, the
\* watchlist and the documents of the other users.
C39_RemoveHoldingFrame ==
    (last.op = "delete_holding" /\ last.user \in Users) =>
        LET old == prev[last.user]
            new == store[last.user]
            k == FindPortfolio(old.portfolios, last.pid)
        IN IF k = 0 \/ FindHolding(old.portfolios[k].holdings, last.hid) = 0
           THEN last.status = 404 /\ store = prev
           ELSE /\ last.status = 204
                /\ new.watchlists = old.watchlists
                /\ Len(new.portfolios) = Len(old.portfolios)
                /\ \A j \in 1..Len(old.portfolios) :
                      j # k => new.portfolios[j] = old.portfolios[j]
                /\ new.portfolios[k].id = old.portfolios[k].id
                /\ new.portfolios[k].name = old.portfolios[k].name
                /\ Len(new.portfolios[k].holdings)
                      = Len(old.portfolios[k].holdings) - 1
                /\ new.portfolios[k].holdings
                      = SelectSeq(old.portfolios[k].holdings,
                                  LAMBDA holding : holding.id # last.hid)
                /\ \A B \in Users \ {last.user} : store[B] = prev[B]

\* the first of two holdings of a portfolio was removed, the second stays
C39_Witness ==
    /\ last.op = "delete_holding"
    /\ last.status = 204
    /\ Len(HoldingsOf(prev[last.user], last.pid)) = 2
    /\ HoldingsOf(prev[last.user], last.pid)[1].id = last.hid
    /\ HoldingsOf(store[last.user], last.pid)
          = <<HoldingsOf(prev[last.user], last.pid)[2]>>

\* What a remove leaves of the watchlist, whatever the watchlist holds
C39_WatchlistKept ==
    \A u \in Users : \A k \in 1..Len(store[u].portfolios) :
    \A h \in 0..MaxHoldingIds :
        LET r == delete_holding(store, u, store[u].portfolios[k].id, h)
        IN /\ r.container[u].watchlists = store[u].watchlists
           /\ r.status = 204 =>
                 Len(r.container[u].portfolios[k].holdings)
                    = Len(store[u].portfolios[k].holdings) - 1

\* a holding is removed from under a watchlist that holds entries
C39_WatchlistKeptWitness ==
    \E u \in Users : \E k \in 1..Len(store[u].portfolios) :
        /\ store[u].watchlists # <<>>
        /\ store[u].portfolios[k].holdings # <<>>

\* C40: once a login or a deactivation has written, a holding that an
\* add_holding answered 201 for, written between the load and the write of
\* the login or deactivation, is in the stored document of the user
C40_MutationsSurvive ==
    (/\ last.op \in AccountOps
     /\ last.status \in {200, 204}
     /\ last.rival # None
     /\ last.rival[1].op = "add_holding"
     /\ last.rival[1].status = 201)
        => last.rival[1].symbol
              \in Symbols(HoldingsOf(store[last.user],
                                     PortfolioId(last.user, 2)))

\* What login and deactivation write: the document they loaded with
\* last_login_at, respectively is_active, changed and nothing else
C40_LoadedDocumentRewritten ==
    (last.op \in AccountOps /\ last.status \in {200, 204})
        => /\ \A B \in Users \ {last.user} : store[B] = prev[B]
           /\ store[last.user] =
                 IF last.op = "login_user"
                 THEN [prev[last.user] EXCEPT
                          !.last_login_at = last.body.last_login_at]
                 ELSE [prev[last.user] EXCEPT !.is_active = FALSE]

\* a login wrote after an add_holding that had loaded the same document
C40_LoginAfterAdd ==
    /\ last.op = "login_user"
    /\ last.status = 200
    /\ last.rival # None
    /\ last.rival[1].op = "add_holding"
    /\ last.rival[1].status = 201

====
